---- MODULE Spec2Model ----
(***************************************************************************)
(* rics: incremental merge of candidate events into a durable event store  *)
(* and rebuild of the per-source, per-year calendar files.                 *)
(*                                                                         *)
(* The model follows src/src/pipeline.rs (sync_sources,                    *)
(* merge_source_events, rebuild_source_calendars,                          *)
(* cleanup_stale_year_files), src/src/store.rs (load_state, save_state)    *)
(* and src/src/model.rs (EventTimeSpec); FetchSpec follows                 *)
(* src/src/fetch.rs (fetch_http_documents, fetch_with_retries).            *)
(*                                                                         *)
(* Abstractions:                                                           *)
(*  - SHA-256 is collision free: a digest is modelled by the value that    *)
(*    was hashed.                                                          *)
(*  - a calendar date is a day number; the year of a day is                *)
(*    BaseYear + day \div DaysPerYear (a scaled-down calendar).            *)
(*  - an instant is a clock tick; its date is tick \div TicksPerDay.       *)
(*  - a calendar file is the sorted sequence of the records written.       *)
(***************************************************************************)
EXTENDS Integers, Sequences, FiniteSets, TLC

\* ------------------------------------------------------------------ bounds
MaxNow == 2
TicksPerDay == 2
DaysPerYear == 2
BaseYear == 2026
MaxLen == 2
MaxChars == 160
\* values of fetch.retry_attempts and pagination.max_pages
RetryAttempts == {0, 2}
MaxPages == {0, 2, 3}
Limb == 65536

\* ------------------------------------------------------------ option type
None == <<>>
Some(x) == <<x>>
IsSome(o) == o # <<>>
Unwrap(o) == o[1]

\* ------------------------------------------------------------- time spec
DateSpec(d) == [kind |-> "date", start |-> d, year |-> 0]
YearSpec(y) == [kind |-> "year", start |-> 0, year |-> y]
TbdSpec == [kind |-> "tbd", start |-> 0, year |-> 0]
\* EventTimeSpec::Month; the field start holds the number of the month
MonthSpec(y, m) == [kind |-> "month", start |-> m, year |-> y]

YearOfDay(d) == BaseYear + (d \div DaysPerYear)
FirstDayOfYear(y) == (y - BaseYear) * DaysPerYear

\* NaiveDate::from_ymd_opt(year, month, 1); a month of the model's calendar
\* is one day long, a month beyond the last one gives no date
from_ymd_opt(y, m) ==
    IF m \in 1..DaysPerYear THEN Some(FirstDayOfYear(y) + (m - 1)) ELSE None

\* a faulty variant of year_bucket: only a dated time has a year
year_bucket_of_dates(t) ==
    CASE t.kind = "date" -> Some(YearOfDay(t.start))
      [] OTHER -> None

year_bucket(t) ==
    CASE t.kind = "date" -> Some(YearOfDay(t.start))
      [] t.kind = "month" -> Some(t.year)
      [] t.kind = "year" -> Some(t.year)
      [] t.kind = "tbd" -> None

start_date(t) ==
    CASE t.kind = "date" -> Some(t.start)
      [] t.kind = "month" -> from_ymd_opt(t.year, t.start)
      [] t.kind = "year" -> Some(FirstDayOfYear(t.year))
      [] t.kind = "tbd" -> None

\* a faulty variant of is_future_relative_to: an event of today is past
is_future_strict(t, today) ==
    CASE t.kind = "date" -> t.start > today
      [] t.kind = "month" -> /\ IsSome(from_ymd_opt(t.year, t.start))
                             /\ Unwrap(from_ymd_opt(t.year, t.start)) > today
      [] t.kind = "year" -> FirstDayOfYear(t.year) > today
      [] t.kind = "tbd" -> TRUE

\* EventTimeSpec::is_future_relative_to
is_future_relative_to(t, today) ==
    CASE t.kind = "date" -> t.start >= today
      [] t.kind = "month" -> /\ IsSome(from_ymd_opt(t.year, t.start))
                             /\ Unwrap(from_ymd_opt(t.year, t.start)) >= today
      [] t.kind = "year" -> FirstDayOfYear(t.year) >= today
      [] t.kind = "tbd" -> TRUE

date_naive(instant) == instant \div TicksPerDay

\* ----------------------------------------------------------------- strings
\* to_lowercase / eq_ignore_ascii_case on the strings of the model
to_lowercase(s) ==
    CASE s = "Report A" -> "report a"
      [] s = "REPORT A" -> "report a"
      [] s = "Report A Revised" -> "report a revised"
      [] s = "Report B" -> "report b"
      [] s = "Cancelled" -> "cancelled"
      [] s = "CANCELLED" -> "cancelled"
      [] OTHER -> s

to_ascii_uppercase(s) ==
    CASE s = "scheduled" -> "SCHEDULED"
      [] s = "cancelled" -> "CANCELLED"
      [] s = "Cancelled" -> "CANCELLED"
      [] OTHER -> s

eq_ignore_ascii_case(a, b) == to_lowercase(a) = to_lowercase(b)

\* rank of a category string in the byte order used by Vec::sort
CatRank(c) ==
    CASE c = "econ" -> 1
      [] c = "policy" -> 2
      [] OTHER -> 3

RECURSIVE dedup(_)
dedup(s) ==
    IF Len(s) <= 1 THEN s
    ELSE IF s[1] = s[2] THEN dedup(Tail(s))
    ELSE <<s[1]>> \o dedup(Tail(s))

sort_categories(s) == SortSeq(s, LAMBDA a, b : CatRank(a) < CatRank(b))

\* ---------------------------------------------------------------- sources
Sources == {"a", "b"}
SourceOrder == <<"a", "b">>

\* the position of a source key in the order of String::cmp
KeyRank(k) == CHOOSE i \in 1..Len(SourceOrder) : SourceOrder[i] = k

\* the orders in which the directory walk may yield the configuration files
Listings ==
    {l \in [1..Cardinality(Sources) -> Sources] :
        \A i, j \in 1..Cardinality(Sources) : i # j => l[i] # l[j]}

\* a faulty variant of load_sources_from_dir: the sources stay in the order
\* of the directory listing
listing_order(listing) == listing

\* load_sources_from_dir: the loaded configurations are sorted by key
load_sources_from_dir(listing) ==
    SortSeq(listing, LAMBDA x, y : KeyRank(x) < KeyRank(y))
SourceName(s) == IF s = "a" THEN "Source A" ELSE "Source B"

\* a candidate event as the parsers build it
Cand(key, eid, url, title, time, status, cats) ==
    [source_key |-> key, source_name |-> SourceName(key),
     source_event_id |-> eid, source_url |-> url, title |-> title,
     description |-> None, time |-> time, timezone |-> None,
     status |-> status, event_type |-> "event", subtype |-> None,
     categories |-> cats, jurisdiction |-> None, country |-> None,
     importance |-> None, confidence |-> None, metadata |-> <<>>]


\* the candidates the sources of the model can yield
A1 == Cand("a", Some("e1"), Some("u1"), "Report A", DateSpec(0), "scheduled", <<"policy", "econ">>)
A1r == Cand("a", Some("e1"), Some("u1"), "Report A Revised", DateSpec(0), "scheduled", <<"econ", "policy">>)
A2 == Cand("a", None, Some("u2"), "Report B", DateSpec(0), "scheduled", <<"econ">>)
A2c == Cand("a", None, Some("u2"), "Report B", DateSpec(0), "Cancelled", <<"econ">>)
A3 == Cand("a", None, None, "Report A", TbdSpec, "scheduled", <<"econ", "econ">>)
B1 == Cand("b", Some("e1"), None, "Report B", YearSpec(BaseYear + 1), "scheduled", <<>>)
\* B1 with other values in the fields RevisionMaterial leaves out
B1x == [B1 EXCEPT !.source_name = "Source B renamed", !.timezone = Some("UTC"),
                  !.jurisdiction = Some("US"), !.country = Some("US"),
                  !.importance = Some(3), !.confidence = Some(1)]
\* B1 moved to the next year
B1m == Cand("b", Some("e1"), None, "Report B", YearSpec(BaseYear + 2), "scheduled", <<>>)

\* a second event of source b, as scheduled and as the feed cancels it
B2 == Cand("b", Some("e2"), None, "Report A", YearSpec(BaseYear + 2), "scheduled", <<>>)
B2c == Cand("b", Some("e2"), None, "Report A", YearSpec(BaseYear + 2), "CANCELLED", <<>>)

\* records of a state file: A1 a day later, A1 with a month that no calendar
\* has, and another event of source a on the first day, a day later, and in
\* such a month
A1l == [A1 EXCEPT !.time = DateSpec(1)]
A1u == [A1 EXCEPT !.time = MonthSpec(BaseYear, DaysPerYear + 1)]
A4 == Cand("a", Some("e4"), None, "Report B", DateSpec(0), "scheduled", <<>>)
A4l == [A4 EXCEPT !.time = DateSpec(1)]
A4u == [A4 EXCEPT !.time = MonthSpec(BaseYear, DaysPerYear + 1)]

\* a third source whose key holds the separator, two of its events, and an
\* event of source a whose source_event_id holds the separator
AB1 == [Cand("a::b", Some("e1"), None, "Report B", DateSpec(1), "scheduled", <<>>)
           EXCEPT !.source_name = "Source A B"]
AB2 == [Cand("a::b", Some("e2"), None, "Report B", DateSpec(1), "scheduled", <<>>)
           EXCEPT !.source_name = "Source A B"]
A5 == Cand("a", Some("b::e1"), None, "Report A", DateSpec(1), "scheduled", <<>>)
\* A1 with other values in fields RevisionMaterial leaves out
A1x == [A1 EXCEPT !.timezone = Some("UTC"), !.importance = Some(3)]
\* A1 as a run yields it whose HashSet of categories iterates in another
\* order, with a category twice
A1p == [A1 EXCEPT !.categories = <<"econ", "policy", "econ">>]
\* A1 moved to the first day of the next year
A1m == [A1 EXCEPT !.time = DateSpec(DaysPerYear)]

Universe(s) == IF s = "a" THEN {A1, A1r, A2, A2c, A3} ELSE {B1, B1x, B1m}

SeqsUpTo(S, n) == UNION {[1..k -> S] : k \in 0..n}
CandLists(s) == SeqsUpTo(Universe(s), IF s = "a" THEN MaxLen ELSE 1)

\* what fetching and parsing a source has yielded in the current run
Unfetched == [kind |-> "unfetched", cands |-> <<>>]
NoFixture == [s \in Sources |-> Unfetched]
Fetched(l) == [kind |-> "ok", cands |-> l]
Failed(k) == [kind |-> k, cands |-> <<>>]

\* --------------------------------------------------- identity and revision
Sha256(x) == <<"sha256", x>>

\* the text of a string, cut at the separator "::" where it contains one;
\* format! writes the texts of its arguments one after the other
Text(str) ==
    CASE str = "a::b" -> <<"a", "::", "b">>
      [] str = "b::e1" -> <<"b", "::", "e1">>
      [] OTHER -> <<str>>

\* a faulty variant of identity: the title is part of it in every case
identity_with_title(c) ==
    IF IsSome(c.source_event_id)
    THEN Text(c.source_key) \o <<"::">> \o Text(Unwrap(c.source_event_id))
            \o <<"::">> \o Text(c.title)
    ELSE IF IsSome(c.source_url)
    THEN Text(c.source_key) \o <<"::">> \o Text(Unwrap(c.source_url))
            \o <<"::">> \o Text(c.title)
    ELSE Text(c.source_key) \o <<"::">> \o Text(to_lowercase(c.title)) \o <<"::">>
            \o (IF IsSome(year_bucket(c.time))
                THEN <<ToString(Unwrap(year_bucket(c.time)))>>
                ELSE <<"undated">>)

\* format!("{}::{}", ..) and format!("{}::{}::{}", ..) of stable_uid
identity(c) ==
    IF IsSome(c.source_event_id)
    THEN Text(c.source_key) \o <<"::">> \o Text(Unwrap(c.source_event_id))
    ELSE IF IsSome(c.source_url)
    THEN Text(c.source_key) \o <<"::">> \o Text(Unwrap(c.source_url))
    ELSE Text(c.source_key) \o <<"::">> \o Text(to_lowercase(c.title)) \o <<"::">>
            \o (IF IsSome(year_bucket(c.time))
                THEN <<ToString(Unwrap(year_bucket(c.time)))>>
                ELSE <<"undated">>)

stable_uid(c) == Sha256(identity(c))

\* a faulty variant of RevisionMaterial: timezone is hashed too
RevisionMaterialWithTimezone(c) ==
    [source_key |-> c.source_key, source_event_id |-> c.source_event_id,
     source_url |-> c.source_url, title |-> c.title,
     description |-> c.description, time |-> c.time, status |-> c.status,
     event_type |-> c.event_type, subtype |-> c.subtype,
     categories |-> c.categories, metadata |-> c.metadata,
     timezone |-> c.timezone]

RevisionMaterial(c) ==
    [source_key |-> c.source_key, source_event_id |-> c.source_event_id,
     source_url |-> c.source_url, title |-> c.title,
     description |-> c.description, time |-> c.time, status |-> c.status,
     event_type |-> c.event_type, subtype |-> c.subtype,
     categories |-> c.categories, metadata |-> c.metadata]

revision_hash(c) == Sha256(RevisionMaterial(c))

\* a faulty variant of normalize: the categories are sorted, duplicates stay
normalize_sort_only(c) == [c EXCEPT !.categories = sort_categories(c.categories)]

normalize(c) == [c EXCEPT !.categories = dedup(sort_categories(c.categories))]

\* a u32 is kept at its width as two 16-bit limbs
U32(hi, lo) == [hi |-> hi, lo |-> lo]
Zero32 == U32(0, 0)
U32Max == U32(Limb - 1, Limb - 1)
Succ32(n) == IF n.lo = Limb - 1 THEN U32(n.hi + 1, 0) ELSE U32(n.hi, n.lo + 1)
Less32(a, b) == a.hi < b.hi \/ (a.hi = b.hi /\ a.lo < b.lo)
Leq32(a, b) == a = b \/ Less32(a, b)

\* a faulty variant of saturating_add: the increment wraps
wrapping_add(n) == IF n = U32Max THEN Zero32 ELSE Succ32(n)

\* u32::saturating_add(1)
saturating_add(n) == IF n = U32Max THEN U32Max ELSE Succ32(n)

\* a faulty variant of candidate_to_record: the stored digest is not the
\* candidate's
stale_hash_record(c, uid, rh, sequence, created_at, instant) ==
    [uid |-> uid, source_key |-> c.source_key, source_name |-> c.source_name,
     source_event_id |-> c.source_event_id, source_url |-> c.source_url,
     title |-> c.title, description |-> c.description, time |-> c.time,
     timezone |-> c.timezone, status |-> c.status,
     event_type |-> c.event_type, subtype |-> c.subtype,
     categories |-> c.categories, jurisdiction |-> c.jurisdiction,
     country |-> c.country, importance |-> c.importance,
     confidence |-> c.confidence, metadata |-> c.metadata,
     sequence |-> sequence, revision_hash |-> Sha256(uid),
     created_at |-> created_at, last_modified |-> instant,
     last_seen_at |-> instant]

\* a faulty variant of candidate_to_record: created_at is stamped anew
restamped_record(c, uid, rh, sequence, created_at, instant) ==
    [uid |-> uid, source_key |-> c.source_key, source_name |-> c.source_name,
     source_event_id |-> c.source_event_id, source_url |-> c.source_url,
     title |-> c.title, description |-> c.description, time |-> c.time,
     timezone |-> c.timezone, status |-> c.status,
     event_type |-> c.event_type, subtype |-> c.subtype,
     categories |-> c.categories, jurisdiction |-> c.jurisdiction,
     country |-> c.country, importance |-> c.importance,
     confidence |-> c.confidence, metadata |-> c.metadata,
     sequence |-> sequence, revision_hash |-> rh,
     created_at |-> instant, last_modified |-> instant,
     last_seen_at |-> instant]

\* candidate_to_record
candidate_to_record(c, uid, rh, sequence, created_at, instant) ==
    [uid |-> uid, source_key |-> c.source_key, source_name |-> c.source_name,
     source_event_id |-> c.source_event_id, source_url |-> c.source_url,
     title |-> c.title, description |-> c.description, time |-> c.time,
     timezone |-> c.timezone, status |-> c.status,
     event_type |-> c.event_type, subtype |-> c.subtype,
     categories |-> c.categories, jurisdiction |-> c.jurisdiction,
     country |-> c.country, importance |-> c.importance,
     confidence |-> c.confidence, metadata |-> c.metadata,
     sequence |-> sequence, revision_hash |-> rh,
     created_at |-> created_at, last_modified |-> instant,
     last_seen_at |-> instant]

\* a faulty variant of touch: last_modified moves too
touch_and_modify(record, instant) ==
    [record EXCEPT !.last_seen_at = instant, !.last_modified = instant]

\* a faulty variant of touch: last_seen_at is left as it was
untouched(record, instant) == record

\* the candidate's revision hash equals the stored one: only last_seen_at moves
touch(record, instant) == [record EXCEPT !.last_seen_at = instant]

\* a faulty variant of cancel: last_modified is left as it was
cancel_unstamped(record, instant) ==
    [record EXCEPT !.status = "cancelled",
                   !.sequence = saturating_add(@),
                   !.last_seen_at = instant]

\* the cancellation sweep cancels a record
cancel(record, instant) ==
    [record EXCEPT !.status = "cancelled",
                   !.sequence = saturating_add(@),
                   !.last_modified = instant,
                   !.last_seen_at = instant]

\* ------------------------------------------------------- state and files
EmptyEvents == [u \in {} |-> {}]
\* a faulty variant of Put: the other entries are dropped
put_alone(m, k, v) == [x \in {k} |-> v]

Put(m, k, v) == [x \in DOMAIN m \cup {k} |-> IF x = k THEN v ELSE m[x]]

DefaultState == [schema_version |-> 1, events |-> EmptyEvents]

\* the state file: absent, a complete document, or a partially written one
AbsentDoc == [kind |-> "absent", state |-> DefaultState]
TornDoc == [kind |-> "torn", state |-> DefaultState]
Doc(st) == [kind |-> "doc", state |-> st]
\* a state file that holds st and cannot be opened for reading
Unreadable(st) == [kind |-> "unreadable", state |-> st]
\* a state file that holds st in a directory that cannot be searched: its
\* metadata cannot be read
Unreachable(st) == [kind |-> "unreachable", state |-> st]

\* a store that has been in use for a long time: two records of source a,
\* the sequence of one of them is one below the top of u32
OldRecord ==
    candidate_to_record(normalize(A1), stable_uid(A1),
                        revision_hash(normalize(A1)), U32(Limb - 1, Limb - 2), 0, 0)
OtherRecord ==
    candidate_to_record(normalize(A2), stable_uid(A2),
                        revision_hash(normalize(A2)), Zero32, 0, 0)
OldState == [schema_version |-> 1,
             events |-> Put(Put(EmptyEvents, stable_uid(A1), OldRecord),
                            stable_uid(A2), OtherRecord)]

Years == BaseYear .. (BaseYear + 2)
FileName(s, y) == [dir |-> s, stem |-> "prefixed", year |-> y]
\* a file named after a bare year, `<year>.ics`
LegacyName(s, y) == [dir |-> s, stem |-> "legacy", year |-> y]
FileNames ==
    {FileName(s, y) : s \in Sources, y \in Years}
        \cup {LegacyName(s, BaseYear) : s \in Sources}

AbsentFile == [kind |-> "absent", events |-> <<>>]
TornFile == [kind |-> "torn", events |-> <<>>]
Calendar(evs) == [kind |-> "cal", events |-> evs]

SentinelDay == 99991231
AllUids == {stable_uid(c) : c \in UNION {Universe(s) : s \in Sources} \cup {B2, B2c, A4}}
UidOrder == CHOOSE f \in [AllUids -> 1..Cardinality(AllUids)] :
                \A u, v \in AllUids : u # v => f[u] # f[v]
UidRank(u) == UidOrder[u]

\* a faulty variant of event_sort_key: a record without start date sorts as
\* the first day
event_sort_key_from_zero(e) ==
    <<IF IsSome(start_date(e.time)) THEN Unwrap(start_date(e.time)) ELSE 0,
      UidRank(e.uid)>>

event_sort_key(e) ==
    <<IF IsSome(start_date(e.time)) THEN Unwrap(start_date(e.time)) ELSE SentinelDay,
      UidRank(e.uid)>>

KeyLess(a, b) == a[1] < b[1] \/ (a[1] = b[1] /\ a[2] < b[2])

RECURSIVE SetToSeq(_)
SetToSeq(S) ==
    IF S = {} THEN <<>>
    ELSE LET x == CHOOSE x \in S : TRUE IN <<x>> \o SetToSeq(S \ {x})

\* a faulty variant of is_cancelled: the cases of the letters must match
is_cancelled_exact(e) == e.status = "cancelled"

is_cancelled(e) == eq_ignore_ascii_case(e.status, "cancelled")

\* by_year of rebuild_source_calendars: the source's records that are not
\* cancelled, bucketed by year
by_year(st, s, y) ==
    {u \in DOMAIN st.events :
        /\ st.events[u].source_key = s
        /\ ~is_cancelled(st.events[u])
        /\ year_bucket(st.events[u].time) = Some(y)}

\* files dropped by hand into the output directory of source a: one named
\* after a bare year, one with the prefix and a year no event of a falls in
HandWritten == {LegacyName("a", BaseYear), FileName("a", BaseYear + 2)}

\* a faulty variant of years_to_write: changed_years is ignored
years_to_write_all(st, s, year_filter, changed) ==
    {y \in Years :
        /\ by_year(st, s, y) # {}
        /\ (IsSome(year_filter) => y = Unwrap(year_filter))}

years_to_write(st, s, year_filter, changed) ==
    {y \in Years :
        /\ by_year(st, s, y) # {}
        /\ (IsSome(year_filter) => y = Unwrap(year_filter))
        /\ (IsSome(changed) => y \in Unwrap(changed))}

\* a faulty variant of append_event_lines: SEQUENCE is always 0
event_lines_without_sequence(e) ==
    [uid |-> e.uid, dtstamp |-> e.last_modified, created |-> e.created_at,
     last_modified |-> e.last_modified, sequence |-> Zero32,
     time |-> e.time, summary |-> e.title, description |-> e.description,
     url |-> e.source_url, categories |-> dedup(sort_categories(e.categories)),
     status |-> to_ascii_uppercase(e.status), source_key |-> e.source_key,
     event_type |-> e.event_type, subtype |-> e.subtype,
     importance |-> e.importance, confidence |-> e.confidence,
     revision_hash |-> e.revision_hash, metadata |-> e.metadata]

\* the VEVENT that append_event_lines emits for a record
append_event_lines(e) ==
    [uid |-> e.uid, dtstamp |-> e.last_modified, created |-> e.created_at,
     last_modified |-> e.last_modified, sequence |-> e.sequence,
     time |-> e.time, summary |-> e.title, description |-> e.description,
     url |-> e.source_url, categories |-> dedup(sort_categories(e.categories)),
     status |-> to_ascii_uppercase(e.status), source_key |-> e.source_key,
     event_type |-> e.event_type, subtype |-> e.subtype,
     importance |-> e.importance, confidence |-> e.confidence,
     revision_hash |-> e.revision_hash, metadata |-> e.metadata]

\* the calendar write_source_year_calendar writes for the year's sorted events
year_calendar(st, s, y) ==
    LET sorted == SortSeq(SetToSeq({st.events[u] : u \in by_year(st, s, y)}),
                          LAMBDA a, b : KeyLess(event_sort_key(a), event_sort_key(b)))
    IN Calendar([i \in 1..Len(sorted) |-> append_event_lines(sorted[i])])

existing_years(st, s, year_filter) ==
    {y \in Years :
        /\ \E u \in DOMAIN st.events :
              /\ st.events[u].source_key = s
              /\ year_bucket(st.events[u].time) = Some(y)
        /\ (IsSome(year_filter) => y = Unwrap(year_filter))}

is_legacy_year_only_filename(f) == f.stem = "legacy"

\* a faulty variant of cleanup_stale_year_files: files named after a bare
\* year are passed over
cleanup_prefixed_only(fs, st, s, year_filter) ==
    [f \in DOMAIN fs |->
        IF f.dir = s /\ fs[f].kind # "absent"
           /\ ~is_legacy_year_only_filename(f)
           /\ f.year \notin existing_years(st, s, year_filter)
        THEN AbsentFile
        ELSE fs[f]]

cleanup_stale_year_files(fs, st, s, year_filter) ==
    [f \in DOMAIN fs |->
        IF f.dir = s /\ fs[f].kind # "absent"
           /\ (is_legacy_year_only_filename(f)
                  \/ f.year \notin existing_years(st, s, year_filter))
        THEN AbsentFile
        ELSE fs[f]]

\* Path::exists: false when the file is absent and when its metadata cannot
\* be read
exists(d) == d.kind \notin {"absent", "unreachable"}

\* load_state returns an error: read_to_string or serde_json::from_str fails
load_fails(d) == exists(d) /\ d.kind \in {"unreadable", "torn"}

load_state(d) == IF ~exists(d) THEN DefaultState ELSE d.state

\* ------------------------------------------------------------------- ics
\* a line is the sequence of its characters, a character is the number of
\* bytes of its UTF-8 encoding (char::len_utf8)
LIMIT == 75

\* str::len: the number of bytes of the line
RECURSIVE len(_)
len(line) ==
    IF line = <<>> THEN 0
    ELSE IF Len(line) = 1 THEN line[1]
    ELSE LET half == Len(line) \div 2
         IN len(SubSeq(line, 1, half)) + len(SubSeq(line, half + 1, Len(line)))

Space == 1

\* chunks.push(current) for the first chunk, format!(" {current}") after it
push_chunk(chunks, current) ==
    IF chunks = <<>> THEN <<current>> ELSE Append(chunks, <<Space>> \o current)

\* fold_line at one of its points: before the length test, in the loop over
\* line.chars(), returned
Folding(line) ==
    [input |-> <<line>>, at |-> "start", rest |-> <<>>, current |-> <<>>,
     chunks |-> <<>>, output |-> <<>>]

\* ------------------------------------------------------------- variables
VARIABLES
    call,           \* a call of stable_uid or fold_line: its input, its output
    disk,           \* the state file
    files,          \* the calendar files of the output directory
    now,            \* the last instant read from the clock
    pc,             \* position of the sync process
    opts,           \* SyncOptions of the current run: source filter, dry_run
    config,         \* the source configurations found in config_dir
    fixture,        \* what each source has yielded in the current run
    queue,          \* sources still to process, the current one first
    state,          \* the in-memory State
    pending,        \* candidates of the current source still to merge
    seen_uids,      \* merge_source_events: seen_uids
    changed_years,  \* merge_source_events: changed_years
    report,         \* SourceRunReport of the current source
    reports,        \* reports pushed so far in this run
    to_write,       \* rebuild_source_calendars: years of by_year still to write
    err,            \* why the run returned an error
    last_cands,     \* history: the candidates of each source's last committed merge
    start_disk,     \* history: the state file when the run started
    start_files,    \* history: the calendar files when the run started
    swept,          \* history: the UIDs the sweeps of this run cancelled
    ideal,          \* history: the calendar files, had no killed run touched them
    ideal_base,     \* history: ideal when the run started
    rerun_of        \* history: what the run before yielded, if it was killed before
                    \* saving and this run has repeated it so far

vars == <<call, disk, files, now, pc, opts, config, fixture, queue, state, pending,
          seen_uids, changed_years, report, reports, to_write, err,
          last_cands, start_disk, start_files, swept, ideal, ideal_base,
          rerun_of>>

NoCall == [input |-> <<>>, output |-> <<>>]

Stopped == {"idle", "done", "aborted", "killed"}
Running == {"source", "merge", "rebuild", "saving"}

AllEnabled == [s \in Sources |-> "enabled"]
Opt(filter, dry) == [source |-> filter, dry_run |-> dry]

\* the invocations of sync: options and the configurations on disk
RunConfigs ==
    {[opts |-> Opt(None, FALSE), config |-> AllEnabled],
     [opts |-> Opt(None, TRUE), config |-> AllEnabled],
     [opts |-> Opt(Some("b"), FALSE), config |-> AllEnabled],
     [opts |-> Opt(Some("zz"), FALSE), config |-> AllEnabled],
     [opts |-> Opt(None, FALSE), config |-> [AllEnabled EXCEPT !["b"] = "disabled"]],
     [opts |-> Opt(None, FALSE), config |-> [AllEnabled EXCEPT !["b"] = "config_error"]]}

NoReport == [source_key |-> "", records_parsed |-> 0, inserted |-> 0,
             updated |-> 0, cancelled |-> 0, unchanged |-> 0]

Init ==
    /\ disk \in {AbsentDoc, Doc(OldState)}
    /\ files = [f \in FileNames |->
                  IF f \in HandWritten
                  THEN Calendar(<<>>)
                  ELSE IF /\ disk.kind = "doc"
                          /\ f.stem = "prefixed"
                          /\ years_to_write(disk.state, f.dir, Some(f.year), None) # {}
                  THEN year_calendar(disk.state, f.dir, f.year)
                  ELSE AbsentFile]
    /\ now = 0
    /\ pc = "idle"
    /\ opts = Opt(None, FALSE)
    /\ config = AllEnabled
    /\ fixture = NoFixture
    /\ queue = <<>>
    /\ state = DefaultState
    /\ pending = <<>>
    /\ seen_uids = {}
    /\ changed_years = {}
    /\ report = NoReport
    /\ reports = <<>>
    /\ to_write = {}
    /\ err = "none"
    /\ last_cands = [s \in Sources |-> None]
    /\ start_disk = disk
    /\ start_files = files
    /\ swept = {}
    /\ ideal = files
    /\ ideal_base = files
    /\ rerun_of = NoFixture
    /\ call = NoCall

\* the sources whose merge the previous run committed
Committed(s) ==
    /\ pc = "done"
    /\ ~opts.dry_run
    /\ \E i \in 1..Len(reports) : reports[i].source_key = s

retain(o, sources) ==
    SelectSeq(sources, LAMBDA s : ~IsSome(o.source) \/ s = Unwrap(o.source))

\* sync_sources up to the source loop: load the configurations, filter them,
\* load the state
StartSync(rc) ==
    /\ pc \in Stopped
    /\ now < MaxNow
    /\ opts' = rc.opts
    /\ config' = rc.config
    /\ fixture' = NoFixture
    /\ last_cands' = [s \in Sources |->
                        IF Committed(s) THEN Some(fixture[s].cands)
                        ELSE last_cands[s]]
    /\ start_disk' = disk
    /\ start_files' = files
    /\ swept' = {}
    /\ ideal_base' = ideal
    /\ rerun_of' = IF pc = "killed" /\ rc.opts = opts /\ rc.config = config
                   THEN rerun_of
                   ELSE NoFixture
    /\ reports' = <<>>
    /\ report' = NoReport
    /\ pending' = <<>>
    /\ seen_uids' = {}
    /\ changed_years' = {}
    /\ to_write' = {}
    /\ \E listing \in Listings : LET sources == load_sources_from_dir(listing) IN
       IF \E s \in Sources : rc.config[s] = "config_error"
       THEN /\ pc' = "aborted" /\ err' = "config"
            /\ queue' = <<>> /\ state' = DefaultState
       ELSE IF retain(rc.opts, sources) = <<>>
       THEN /\ pc' = "aborted" /\ err' = "no_source"
            /\ queue' = <<>> /\ state' = DefaultState
       ELSE IF load_fails(disk)
       THEN /\ pc' = "aborted" /\ err' = "state"
            /\ queue' = <<>> /\ state' = DefaultState
       ELSE /\ pc' = "source" /\ err' = "none"
            /\ queue' = retain(rc.opts, sources) /\ state' = load_state(disk)
    /\ UNCHANGED <<call, disk, files, now, ideal>>

\* a disabled source is skipped
SkipDisabled ==
    /\ pc = "source" /\ queue # <<>>
    /\ config[Head(queue)] = "disabled"
    /\ queue' = Tail(queue)
    /\ UNCHANGED <<call, disk, files, now, pc, opts, config, fixture, state, pending,
                   seen_uids, changed_years, report, reports, to_write, err,
                   last_cands, start_disk, start_files, swept, ideal, ideal_base, rerun_of>>

\* fetch_source_documents(..)? : the error leaves sync_sources
FetchFails ==
    /\ pc = "source" /\ queue # <<>>
    /\ config[Head(queue)] = "enabled"
    /\ fixture' = [fixture EXCEPT ![Head(queue)] = Failed("fetch_error")]
    /\ pc' = "aborted" /\ err' = "fetch"
    /\ UNCHANGED <<call, disk, files, now, opts, config, queue, state, pending,
                   seen_uids, changed_years, report, reports, to_write,
                   last_cands, start_disk, start_files, swept, ideal, ideal_base, rerun_of>>

\* parse_source_events(..)? : the error leaves sync_sources
ParseFails ==
    /\ pc = "source" /\ queue # <<>>
    /\ config[Head(queue)] = "enabled"
    /\ fixture' = [fixture EXCEPT ![Head(queue)] = Failed("parse_error")]
    /\ pc' = "aborted" /\ err' = "parse"
    /\ UNCHANGED <<call, disk, files, now, opts, config, queue, state, pending,
                   seen_uids, changed_years, report, reports, to_write,
                   last_cands, start_disk, start_files, swept, ideal, ideal_base, rerun_of>>

\* the candidates are parsed; merge_source_events starts and reads the clock
BeginMerge(candidates) ==
    /\ pc = "source" /\ queue # <<>>
    /\ config[Head(queue)] = "enabled"
    /\ candidates \in CandLists(Head(queue))
    /\ fixture' = [fixture EXCEPT ![Head(queue)] = Fetched(candidates)]
    /\ rerun_of' = IF rerun_of[Head(queue)].kind = "ok"
                      /\ rerun_of[Head(queue)].cands # candidates
                   THEN NoFixture
                   ELSE rerun_of
    /\ \E t \in {now + 1, (date_naive(now) + 1) * TicksPerDay} :
          /\ t <= MaxNow
          /\ now' = t
    /\ pc' = "merge"
    /\ pending' = candidates
    /\ report' = [NoReport EXCEPT !.source_key = Head(queue),
                                  !.records_parsed = Len(candidates)]
    /\ seen_uids' = {}
    /\ changed_years' = {}
    /\ UNCHANGED <<call, disk, files, opts, config, queue, state, reports, to_write,
                   err, last_cands, start_disk, start_files, swept, ideal, ideal_base>>

\* one iteration of the candidate loop of merge_source_events
MergeCandidate ==
    /\ pc = "merge" /\ pending # <<>>
    /\ LET candidate == normalize(Head(pending))
           uid == stable_uid(candidate)
           rh == revision_hash(candidate)
           yb == year_bucket(candidate.time)
           ev == state.events
       IN /\ seen_uids' = seen_uids \cup {uid}
          /\ IF uid \in DOMAIN ev
             THEN IF ev[uid].revision_hash # rh
                  THEN /\ state' = [state EXCEPT !.events[uid] =
                              candidate_to_record(candidate, uid, rh,
                                  saturating_add(ev[uid].sequence),
                                  ev[uid].created_at, now)]
                       /\ report' = [report EXCEPT !.updated = @ + 1]
                       /\ changed_years' =
                              IF IsSome(yb) THEN changed_years \cup {Unwrap(yb)}
                              ELSE changed_years
                  ELSE /\ state' = [state EXCEPT !.events[uid] = touch(@, now)]
                       /\ report' = [report EXCEPT !.unchanged = @ + 1]
                       /\ changed_years' = changed_years
             ELSE /\ state' = [state EXCEPT !.events =
                          Put(ev, uid, candidate_to_record(candidate, uid, rh, Zero32, now, now))]
                  /\ report' = [report EXCEPT !.inserted = @ + 1]
                  /\ changed_years' =
                         IF IsSome(yb) THEN changed_years \cup {Unwrap(yb)}
                         ELSE changed_years
    /\ pending' = Tail(pending)
    /\ UNCHANGED <<call, disk, files, now, pc, opts, config, fixture, queue, reports,
                   to_write, err, last_cands, start_disk, start_files, swept, ideal, ideal_base, rerun_of>>

\* the records the cancellation sweep of a merge for source s cancels
sweep_targets(st, s, seen, today) ==
    {u \in DOMAIN st.events :
        /\ st.events[u].source_key = s
        /\ u \notin seen
        /\ is_future_relative_to(st.events[u].time, today)
        /\ ~eq_ignore_ascii_case(st.events[u].status, "cancelled")}

\* a faulty variant of bucket_years: the sweep adds no year
no_bucket_years(st, U) == {}

bucket_years(st, U) ==
    {Unwrap(year_bucket(st.events[u].time)) :
        u \in {v \in U : IsSome(year_bucket(st.events[v].time))}}

\* the cancellation sweep ends merge_source_events; sync_sources then starts
\* rebuild_source_calendars, or pushes the report at once in a dry run
Sweep ==
    /\ pc = "merge" /\ pending = <<>>
    /\ LET s == Head(queue)
           T == sweep_targets(state, s, seen_uids, date_naive(now))
           st == [state EXCEPT !.events =
                     [u \in DOMAIN state.events |->
                        IF u \in T THEN cancel(state.events[u], now)
                        ELSE state.events[u]]]
           changed == changed_years \cup bucket_years(state, T)
           rep == [report EXCEPT !.cancelled = @ + Cardinality(T)]
       IN /\ state' = st
          /\ changed_years' = changed
          /\ report' = rep
          /\ swept' = swept \cup T
          /\ IF opts.dry_run
             THEN /\ pc' = "source"
                  /\ reports' = Append(reports, rep)
                  /\ queue' = Tail(queue)
                  /\ to_write' = {}
             ELSE /\ pc' = "rebuild"
                  /\ to_write' = years_to_write(st, s, None, Some(changed))
                  /\ UNCHANGED <<call, reports, queue>>
    /\ UNCHANGED <<call, disk, files, now, opts, config, fixture, pending, seen_uids, err,
                   last_cands, start_disk, start_files, ideal, ideal_base, rerun_of>>

\* rebuild_source_calendars writes the calendar of one year of by_year
WriteYear(y) ==
    /\ pc = "rebuild" /\ y \in to_write
    /\ LET f == FileName(Head(queue), y)
           c == year_calendar(state, Head(queue), y)
       IN /\ files' = [files EXCEPT ![f] = c]
          /\ ideal' = [ideal EXCEPT ![f] = c]
    /\ to_write' = to_write \ {y}
    /\ UNCHANGED <<call, disk, now, pc, opts, config, fixture, queue, state, pending,
                   seen_uids, changed_years, report, reports, err,
                   last_cands, start_disk, start_files, swept, ideal_base,
                   rerun_of>>

\* write_source_year_calendar(..)? : the error leaves sync_sources; the file
\* is as it was or has been written in part
WriteFails(y) ==
    /\ pc = "rebuild" /\ y \in to_write
    /\ LET f == FileName(Head(queue), y)
       IN \E torn \in BOOLEAN :
             /\ files' = [files EXCEPT ![f] = IF torn THEN TornFile ELSE @]
             /\ ideal' = [ideal EXCEPT ![f] = IF torn THEN TornFile ELSE @]
    /\ pc' = "aborted" /\ err' = "write"
    /\ UNCHANGED <<call, disk, now, opts, config, fixture, queue, state, pending,
                   seen_uids, changed_years, report, reports, to_write,
                   last_cands, start_disk, start_files, swept, ideal_base,
                   rerun_of>>

\* all years written: the stale files of the source are removed and the
\* report is pushed
Cleanup ==
    /\ pc = "rebuild" /\ to_write = {}
    /\ files' = cleanup_stale_year_files(files, state, Head(queue), None)
    /\ ideal' = cleanup_stale_year_files(ideal, state, Head(queue), None)
    /\ reports' = Append(reports, report)
    /\ queue' = Tail(queue)
    /\ pc' = "source"
    /\ UNCHANGED <<call, disk, now, opts, config, fixture, state, pending, seen_uids,
                   changed_years, report, to_write, err, last_cands,
                   start_disk, start_files, swept, ideal_base, rerun_of>>

\* a faulty variant of EndDryRun: the dry run saves the state
EndDryRunSaving ==
    /\ pc = "source" /\ queue = <<>> /\ opts.dry_run
    /\ pc' = "done"
    /\ disk' = Doc(state)
    /\ UNCHANGED <<call, files, now, opts, config, fixture, queue, state, pending,
                   seen_uids, changed_years, report, reports, to_write, err,
                   last_cands, start_disk, start_files, swept, ideal, ideal_base, rerun_of>>

\* the source loop has ended; a dry run returns its reports
EndDryRun ==
    /\ pc = "source" /\ queue = <<>> /\ opts.dry_run
    /\ pc' = "done"
    /\ UNCHANGED <<call, disk, files, now, opts, config, fixture, queue, state, pending,
                   seen_uids, changed_years, report, reports, to_write, err,
                   last_cands, start_disk, start_files, swept, ideal, ideal_base, rerun_of>>

\* save_state: std::fs::write opens the state file truncating it ...
SaveBegin ==
    /\ pc = "source" /\ queue = <<>> /\ ~opts.dry_run
    /\ disk' = TornDoc
    /\ pc' = "saving"
    /\ UNCHANGED <<call, files, now, opts, config, fixture, queue, state, pending,
                   seen_uids, changed_years, report, reports, to_write, err,
                   last_cands, start_disk, start_files, swept, ideal, ideal_base, rerun_of>>

\* ... and writes the serialized state into it
SaveEnd ==
    /\ pc = "saving"
    /\ disk' = Doc(state)
    /\ pc' = "done"
    /\ UNCHANGED <<call, files, now, opts, config, fixture, queue, state, pending,
                   seen_uids, changed_years, report, reports, to_write, err,
                   last_cands, start_disk, start_files, swept, ideal, ideal_base, rerun_of>>

\* save_state(..)? : creating the directory or opening the file fails and the
\* file is as it was, or the write fails and the file is left in part
SaveFails ==
    /\ \/ pc = "source" /\ queue = <<>> /\ ~opts.dry_run
       \/ pc = "saving"
    /\ pc' = "aborted" /\ err' = "save"
    /\ UNCHANGED <<call, disk, files, now, opts, config, fixture, queue, state, pending,
                   seen_uids, changed_years, report, reports, to_write,
                   last_cands, start_disk, start_files, swept, ideal, ideal_base, rerun_of>>

\* the process is killed between two steps
Kill ==
    /\ pc \in Running
    /\ pc' = "killed"
    /\ err' = IF pc = "saving" THEN "killed_saving" ELSE "killed"
    /\ ideal' = ideal_base
    /\ rerun_of' = IF pc = "saving" THEN NoFixture ELSE fixture
    /\ UNCHANGED <<call, disk, files, now, opts, config, fixture, queue, state,
                   pending, seen_uids, changed_years, report, reports,
                   to_write, last_cands, start_disk, start_files, swept,
                   ideal_base>>

\* the process is killed while std::fs::write writes a calendar file
KillMidWrite(y) ==
    /\ pc = "rebuild" /\ y \in to_write
    /\ files' = [files EXCEPT ![FileName(Head(queue), y)] = TornFile]
    /\ pc' = "killed"
    /\ err' = "killed"
    /\ ideal' = ideal_base
    /\ rerun_of' = fixture
    /\ UNCHANGED <<call, disk, now, opts, config, fixture, queue, state, pending,
                   seen_uids, changed_years, report, reports, to_write,
                   last_cands, start_disk, start_files, swept, ideal_base>>

Next ==
    \/ \E rc \in RunConfigs : StartSync(rc)
    \/ SkipDisabled
    \/ FetchFails
    \/ ParseFails
    \/ \E l \in UNION {CandLists(s) : s \in Sources} : BeginMerge(l)
    \/ MergeCandidate
    \/ Sweep
    \/ \E y \in Years : WriteYear(y)
    \/ \E y \in Years : WriteFails(y)
    \/ Cleanup
    \/ EndDryRun
    \/ SaveBegin
    \/ SaveEnd
    \/ SaveFails
    \/ Kill
    \/ \E y \in Years : KillMidWrite(y)

Spec == Init /\ [][Next]_vars

\* ------------------------------------------------------------------ build
\* the record merge_source_events inserts for a candidate at an instant
inserted(c, instant) ==
    candidate_to_record(normalize(c), stable_uid(normalize(c)),
                        revision_hash(normalize(c)), Zero32, instant, instant)

\* the State that holds the records of a set with one record per UID
StateOf(R) ==
    [schema_version |-> 1,
     events |-> [u \in {r.uid : r \in R} |-> CHOOSE r \in R : r.uid = u]]

\* the states earlier syncs can have saved: for each UID no record, the
\* record as inserted, or the record as a later sync left it
BuildStates ==
    {StateOf(r1 \cup r2 \cup r3 \cup r4 \cup r5) :
        r1 \in {{}, {inserted(A1, 0)}, {cancel(inserted(A1, 0), 1)},
                {inserted(A1l, 0)}, {inserted(A1u, 0)}},
        r2 \in {{}, {inserted(A2c, 0)}},
        r3 \in {{}, {inserted(B1, 0)}, {inserted(B1m, 0)}},
        r4 \in {{}, {inserted(B2, 0)}, {inserted(B2c, 0)}},
        r5 \in {{}, {inserted(A4, 0)}, {inserted(A4l, 0)}, {inserted(A4u, 0)}}}

\* the state of a store whose file has become inaccessible
KeptState == StateOf({inserted(A1, 0), inserted(B1, 0)})

\* the calendar files a sync of every source leaves for a state
built_files(st) ==
    [f \in FileNames |->
        IF f.stem = "prefixed" /\ by_year(st, f.dir, f.year) # {}
        THEN year_calendar(st, f.dir, f.year)
        ELSE AbsentFile]

BuildOpt(filter, year) == [source |-> filter, year |-> year]

\* the invocations of build: BuildOptions and the configurations on disk
BuildConfigs ==
    {[opts |-> BuildOpt(f, y), config |-> c] :
        f \in {None, Some("b"), Some("zz")},
        y \in {None} \cup {Some(x) : x \in Years},
        c \in {AllEnabled, [AllEnabled EXCEPT !["b"] = "disabled"],
               [AllEnabled EXCEPT !["a"] = "config_error"]}}

\* the values of the changed_years argument of rebuild_source_calendars
ChangedArgs == {None} \cup {Some(S) : S \in SUBSET Years}

\* the state file and the output directory before build runs; in BuildSpec
\* opts holds the BuildOptions and changed_years the changed_years argument
BuildInit ==
    /\ disk \in {AbsentDoc, TornDoc, Unreadable(KeptState), Unreachable(KeptState)}
                \cup {Doc(st) : st \in BuildStates}
    /\ files \in {[f \in FileNames |-> AbsentFile]}
                 \cup (IF disk.kind \in {"doc", "unreadable", "unreachable"}
                       THEN {built_files(disk.state)}
                       ELSE {})
    /\ now = 0
    /\ pc = "idle"
    /\ opts = BuildOpt(None, None)
    /\ config = AllEnabled
    /\ fixture = NoFixture
    /\ queue = <<>>
    /\ state = DefaultState
    /\ pending = <<>>
    /\ seen_uids = {}
    /\ changed_years = None
    /\ report = NoReport
    /\ reports = <<>>
    /\ to_write = {}
    /\ err = "none"
    /\ last_cands = [s \in Sources |-> None]
    /\ start_disk = disk
    /\ start_files = files
    /\ swept = {}
    /\ ideal = files
    /\ ideal_base = files
    /\ rerun_of = NoFixture
    /\ call = NoCall

\* build_calendars up to the source loop: load the configurations, filter
\* them, load the state; the first source's by_year is computed
StartBuild(bc) ==
    /\ pc = "idle"
    /\ opts' = bc.opts
    /\ config' = bc.config
    /\ changed_years' = None
    /\ \E listing \in Listings : LET sources == load_sources_from_dir(listing) IN
       IF \E s \in Sources : bc.config[s] = "config_error"
       THEN /\ pc' = "aborted" /\ err' = "config"
            /\ queue' = <<>> /\ state' = DefaultState /\ to_write' = {}
       ELSE IF retain(bc.opts, sources) = <<>>
       THEN /\ pc' = "aborted" /\ err' = "no_source"
            /\ queue' = <<>> /\ state' = DefaultState /\ to_write' = {}
       ELSE IF load_fails(disk)
       THEN /\ pc' = "aborted" /\ err' = "state"
            /\ queue' = <<>> /\ state' = DefaultState /\ to_write' = {}
       ELSE /\ pc' = "build" /\ err' = "none"
            /\ queue' = retain(bc.opts, sources) /\ state' = load_state(disk)
            /\ to_write' = years_to_write(load_state(disk), Head(retain(bc.opts, sources)),
                                          bc.opts.year, None)
    /\ UNCHANGED <<call, disk, files, now, fixture, pending, seen_uids, report,
                   reports, last_cands, start_disk, start_files, swept, ideal,
                   ideal_base, rerun_of>>

\* rebuild_source_calendars called for one source with any year_filter and
\* any changed_years: by_year is computed and filtered
CallRebuild(s, year_filter, changed) ==
    /\ pc = "idle"
    /\ ~load_fails(disk)
    /\ opts' = BuildOpt(Some(s), year_filter)
    /\ changed_years' = changed
    /\ state' = load_state(disk)
    /\ queue' = <<s>>
    /\ to_write' = years_to_write(load_state(disk), s, year_filter, changed)
    /\ pc' = "build"
    /\ UNCHANGED <<call, disk, files, now, config, fixture, pending, seen_uids,
                   report, reports, err, last_cands, start_disk, start_files,
                   swept, ideal, ideal_base, rerun_of>>

\* rebuild_source_calendars writes the calendar of one year of by_year
BuildWriteYear(y) ==
    /\ pc = "build" /\ y \in to_write
    /\ files' = [files EXCEPT ![FileName(Head(queue), y)] =
                                 year_calendar(state, Head(queue), y)]
    /\ to_write' = to_write \ {y}
    /\ UNCHANGED <<call, disk, now, pc, opts, config, fixture, queue, state, pending,
                   seen_uids, changed_years, report, reports, err, last_cands,
                   start_disk, start_files, swept, ideal, ideal_base, rerun_of>>

\* write_source_year_calendar(..)? : the error leaves the build; the file is
\* as it was or has been written in part
BuildWriteFails(y) ==
    /\ pc = "build" /\ y \in to_write
    /\ \E torn \in BOOLEAN :
          files' = [files EXCEPT ![FileName(Head(queue), y)] =
                                    IF torn THEN TornFile ELSE @]
    /\ pc' = "aborted" /\ err' = "write"
    /\ UNCHANGED <<call, disk, now, opts, config, fixture, queue, state, pending,
                   seen_uids, changed_years, report, reports, to_write,
                   last_cands, start_disk, start_files, swept, ideal,
                   ideal_base, rerun_of>>

\* all years written: the stale files of the source are removed under the
\* year filter of the call; the loop goes on with the next source
BuildCleanup ==
    /\ pc = "build" /\ to_write = {}
    /\ files' = cleanup_stale_year_files(files, state, Head(queue), opts.year)
    /\ queue' = Tail(queue)
    /\ IF Tail(queue) = <<>>
       THEN pc' = "done" /\ to_write' = {}
       ELSE /\ pc' = "build"
            /\ to_write' = years_to_write(state, Head(Tail(queue)), opts.year,
                                          changed_years)
    /\ UNCHANGED <<call, disk, now, opts, config, fixture, state, pending, seen_uids,
                   changed_years, report, reports, err, last_cands,
                   start_disk, start_files, swept, ideal, ideal_base, rerun_of>>

BuildNext ==
    \/ \E bc \in BuildConfigs : StartBuild(bc)
    \/ \E s \in Sources, yf \in {None} \cup {Some(x) : x \in Years},
          ch \in ChangedArgs : CallRebuild(s, yf, ch)
    \/ \E y \in Years : BuildWriteYear(y)
    \/ \E y \in Years : BuildWriteFails(y)
    \/ BuildCleanup

BuildSpec == BuildInit /\ [][BuildNext]_vars

\* ------------------------------------------------------------------ merge
\* merge_source_events for source a in a store that also holds the records of
\* source "a::b": the states the store can be in when the merge starts
MergeStates ==
    {StateOf(r1 \cup r2 \cup r3) :
        r1 \in {{}, {inserted(A1, 0)}},
        r2 \in {{inserted(AB1, 0)}},
        r3 \in {{}, {inserted(AB2, 0)}}}

\* the candidates source a yields
MergeLists == SeqsUpTo({A1, A1x, A1p, A2, A5}, MaxLen)

\* `sync --source a` has loaded the state, fetched and parsed source a and
\* has entered merge_source_events
MergeInit ==
    /\ disk \in {Doc(st) : st \in MergeStates}
    /\ files = [f \in FileNames |-> AbsentFile]
    /\ now \in 1..MaxNow
    /\ pc = "merge"
    /\ opts \in {Opt(Some("a"), FALSE), Opt(Some("a"), TRUE)}
    /\ config = AllEnabled
    /\ pending \in MergeLists
    /\ fixture = [NoFixture EXCEPT !["a"] = Fetched(pending)]
    /\ queue = <<"a">>
    /\ state = load_state(disk)
    /\ seen_uids = {}
    /\ changed_years = {}
    /\ report = [NoReport EXCEPT !.source_key = "a",
                                 !.records_parsed = Len(pending)]
    /\ reports = <<>>
    /\ to_write = {}
    /\ err = "none"
    /\ last_cands = [s \in Sources |-> None]
    /\ start_disk = disk
    /\ start_files = files
    /\ swept = {}
    /\ ideal = files
    /\ ideal_base = files
    /\ rerun_of = NoFixture
    /\ call = NoCall

MergeNext == MergeCandidate \/ Sweep

MergeSpec == MergeInit /\ [][MergeNext]_vars

\* ------------------------------------------------------------------- move
\* `sync --source a` from merge_source_events to its end, for a source whose
\* feed moves an event into the next year: the states the store can be in
\* when the sync starts, with the calendar files the syncs before have left
MoveStates ==
    {StateOf({inserted(A1, 0)}),
     StateOf({inserted(A1, 0), inserted(A2, 0)}),
     StateOf({inserted(A1m, 0), inserted(A2, 0)})}

\* the candidates source a yields
MoveLists == SeqsUpTo({A1, A1m, A2}, MaxLen)

MoveInit ==
    /\ disk \in {Doc(st) : st \in MoveStates}
    /\ files = built_files(disk.state)
    /\ now \in 1..MaxNow
    /\ pc = "merge"
    /\ opts \in {Opt(Some("a"), FALSE), Opt(Some("a"), TRUE)}
    /\ config = AllEnabled
    /\ pending \in MoveLists
    /\ fixture = [NoFixture EXCEPT !["a"] = Fetched(pending)]
    /\ queue = <<"a">>
    /\ state = load_state(disk)
    /\ seen_uids = {}
    /\ changed_years = {}
    /\ report = [NoReport EXCEPT !.source_key = "a",
                                 !.records_parsed = Len(pending)]
    /\ reports = <<>>
    /\ to_write = {}
    /\ err = "none"
    /\ last_cands = [s \in Sources |-> None]
    /\ start_disk = disk
    /\ start_files = files
    /\ swept = {}
    /\ ideal = files
    /\ ideal_base = files
    /\ rerun_of = NoFixture
    /\ call = NoCall

MoveNext ==
    \/ MergeCandidate
    \/ Sweep
    \/ \E y \in Years : WriteYear(y)
    \/ \E y \in Years : WriteFails(y)
    \/ Cleanup
    \/ EndDryRun
    \/ SaveBegin
    \/ SaveEnd
    \/ SaveFails
    \/ Kill
    \/ \E y \in Years : KillMidWrite(y)

MoveSpec == MoveInit /\ [][MoveNext]_vars

\* -------------------------------------------------------------------- dry
\* `sync --source a` run again and again, as a dry run or not, over a store
\* that earlier syncs have left
DryDocs ==
    {AbsentDoc, Doc(OldState), Doc(StateOf({inserted(A1r, 0), inserted(A2, 0)}))}

DryConfigs ==
    {[opts |-> Opt(Some("a"), dry), config |-> AllEnabled] : dry \in BOOLEAN}

\* the candidates source a yields
DryLists == {<<>>, <<A1>>, <<A1r>>, <<A1r, A2>>, <<A2c, A3>>}

DryInit ==
    /\ disk \in DryDocs
    /\ files = built_files(disk.state)
    /\ now = 0
    /\ pc = "idle"
    /\ opts = Opt(None, FALSE)
    /\ config = AllEnabled
    /\ fixture = NoFixture
    /\ queue = <<>>
    /\ state = DefaultState
    /\ pending = <<>>
    /\ seen_uids = {}
    /\ changed_years = {}
    /\ report = NoReport
    /\ reports = <<>>
    /\ to_write = {}
    /\ err = "none"
    /\ last_cands = [s \in Sources |-> None]
    /\ start_disk = disk
    /\ start_files = files
    /\ swept = {}
    /\ ideal = files
    /\ ideal_base = files
    /\ rerun_of = NoFixture
    /\ call = NoCall

DryNext ==
    \/ \E rc \in DryConfigs : StartSync(rc)
    \/ FetchFails
    \/ ParseFails
    \/ \E l \in DryLists : BeginMerge(l)
    \/ MergeCandidate
    \/ Sweep
    \/ \E y \in Years : WriteYear(y)
    \/ \E y \in Years : WriteFails(y)
    \/ Cleanup
    \/ EndDryRun
    \/ SaveBegin
    \/ SaveEnd
    \/ SaveFails
    \/ Kill
    \/ \E y \in Years : KillMidWrite(y)

DrySpec == DryInit /\ [][DryNext]_vars

\* --------------------------------------------------------- pure functions
\* no sync and no build runs: the program's state while a function is called
others == <<disk, files, pc, opts, config, fixture, queue, state, pending,
            seen_uids, changed_years, report, reports, to_write, err,
            last_cands, start_disk, start_files, swept, ideal, ideal_base,
            rerun_of>>

Resting ==
    /\ disk = AbsentDoc
    /\ files = [f \in FileNames |-> AbsentFile]
    /\ now = 0
    /\ pc = "idle"
    /\ opts = Opt(None, FALSE)
    /\ config = AllEnabled
    /\ fixture = NoFixture
    /\ queue = <<>>
    /\ state = DefaultState
    /\ pending = <<>>
    /\ seen_uids = {}
    /\ changed_years = {}
    /\ report = NoReport
    /\ reports = <<>>
    /\ to_write = {}
    /\ err = "none"
    /\ last_cands = [s \in Sources |-> None]
    /\ start_disk = disk
    /\ start_files = files
    /\ swept = {}
    /\ ideal = files
    /\ ideal_base = files
    /\ rerun_of = NoFixture

\* candidates that differ in the fields stable_uid reads and in others
IdentityCases ==
    {[Cand(k, eid, url, title, time, status, <<>>) EXCEPT !.source_name = name] :
        k \in Sources,
        eid \in {None, Some("e1")},
        url \in {None, Some("u1")},
        title \in {"Report A", "REPORT A", "Report B"},
        time \in {DateSpec(0), YearSpec(BaseYear + 1), TbdSpec},
        status \in {"scheduled", "Cancelled"},
        name \in {"Source A"}}

UidInit ==
    /\ Resting
    /\ call \in {[input |-> <<c1, c2>>, output |-> <<None, None>>] :
                     c1 \in IdentityCases, c2 \in IdentityCases}

\* stable_uid is called for one of the two candidates at some instant
CallStableUid(i, instant) ==
    /\ Len(call.input) = 2
    /\ now' = instant
    /\ call' = [call EXCEPT !.output[i] = Some(stable_uid(call.input[i]))]
    /\ UNCHANGED others

UidNext == \E i \in 1..2, instant \in 0..MaxNow : CallStableUid(i, instant)

UidSpec == UidInit /\ [][UidNext]_vars

\* logical lines of up to MaxChars characters of one to four bytes
Patterns == {<<1>>, <<2>>, <<3>>, <<4>>, <<1, 2>>, <<3, 1>>, <<4, 1, 1>>, <<1, 1, 4>>}
Line(n, pat) == [i \in 1..n |-> pat[((i - 1) % Len(pat)) + 1]]
Lines == {Line(n, pat) : n \in 0..MaxChars, pat \in Patterns}

FoldInit ==
    /\ Resting
    /\ call \in {Folding(l) : l \in Lines}

\* fold_line: a line within the limit is returned whole, a longer one enters
\* the loop
FoldBegin ==
    /\ Len(call.input) = 1 /\ call.at = "start"
    /\ call' = IF len(call.input[1]) <= LIMIT
               THEN [call EXCEPT !.at = "returned", !.output = <<call.input[1]>>]
               ELSE [call EXCEPT !.at = "loop", !.rest = call.input[1]]
    /\ UNCHANGED <<now, others>>

\* one pass of the loop over line.chars()
FoldChar ==
    /\ Len(call.input) = 1 /\ call.at = "loop" /\ call.rest # <<>>
    /\ LET ch == Head(call.rest)
           next_len == len(call.current) + ch
       IN call' = IF next_len > LIMIT
                  THEN [call EXCEPT !.chunks = push_chunk(@, call.current),
                                    !.current = <<ch>>,
                                    !.rest = Tail(@)]
                  ELSE [call EXCEPT !.current = Append(@, ch),
                                    !.rest = Tail(@)]
    /\ UNCHANGED <<now, others>>

\* after the loop: what remains is pushed, the chunks are returned and
\* push_line emits them
FoldEnd ==
    /\ Len(call.input) = 1 /\ call.at = "loop" /\ call.rest = <<>>
    /\ LET chunks == IF call.current # <<>>
                     THEN push_chunk(call.chunks, call.current)
                     ELSE call.chunks
       IN call' = [call EXCEPT !.at = "returned", !.current = <<>>,
                               !.chunks = chunks, !.output = chunks]
    /\ UNCHANGED <<now, others>>

FoldNext == FoldBegin \/ FoldChar \/ FoldEnd

FoldSpec == FoldInit /\ [][FoldNext]_vars

\* ------------------------------------------------------------------ fetch
\* a usize is kept at its width of 64 bits as four 16-bit limbs, the most
\* significant first
Usize(n) == <<0, 0, 0, n>>
UsizeMax == <<Limb - 1, Limb - 1, Limb - 1, Limb - 1>>

\* usize addition: the sum at the width of usize and whether it overflowed
overflowing_add(a, b) ==
    LET s4 == a[4] + b[4]
        s3 == a[3] + b[3] + (s4 \div Limb)
        s2 == a[2] + b[2] + (s3 \div Limb)
        s1 == a[1] + b[1] + (s2 \div Limb)
    IN [value |-> <<s1 % Limb, s2 % Limb, s3 % Limb, s4 % Limb>>,
        overflow |-> s1 >= Limb]

LessUsize(a, b) ==
    \E i \in 1..4 : a[i] < b[i] /\ \A j \in 1..(i - 1) : a[j] = b[j]

\* a URL: whether Url::parse accepts it, and its query pairs
Url(valid, query) == [valid |-> valid, query |-> query]

\* the positions of the query pairs whose key is param
Hits(query, param) == {i \in 1..Len(query) : query[i][1] = param}

\* a faulty variant of build_paged_url: the page is not written into the URL
build_unpaged_url(base_url, param, page) == base_url

\* build_paged_url: the first pair with the key param gets the page as its
\* value; without such a pair one is appended
build_paged_url(base_url, param, page) ==
    LET hits == Hits(base_url.query, param)
    IN IF hits = {}
       THEN [base_url EXCEPT !.query = Append(@, <<param, page>>)]
       ELSE LET first == CHOOSE i \in hits : \A j \in hits : i <= j
            IN [base_url EXCEPT !.query[first] = <<param, page>>]

\* u8::max(1)
max(retry_attempts, floor) ==
    IF retry_attempts < floor THEN floor ELSE retry_attempts

to_ascii_uppercase_method(method) ==
    CASE method = "get" -> "GET"
      [] method = "post" -> "POST"
      [] method = "put" -> "PUT"
      [] OTHER -> method

\* what request.send() and resp.bytes() give for one request: a 2xx response
\* with a body, with an empty body, with a body whose read fails; a response
\* with another status; no response
Outcomes == {"ok_body", "ok_empty", "ok_body_error", "status", "error"}

\* resp.status().is_success() of the response of an outcome
is_success(outcome) == outcome \in {"ok_body", "ok_empty", "ok_body_error"}

\* the bytes of the body of an outcome
is_empty(outcome) == outcome = "ok_empty"

\* a faulty variant of retry: the last attempt is retried too
retry_always(outcome, attempt, attempts) == ~is_success(outcome)

\* a pass of the loop of fetch_with_retries goes on to the sleep and the
\* next pass
retry(outcome, attempt, attempts) == ~is_success(outcome) /\ attempt # attempts

Ok(docs) == [kind |-> "ok", why |-> "", docs |-> docs]
Err(why) == [kind |-> "err", why |-> why, docs |-> <<>>]

FetchedDocument(url, outcome, index) ==
    [source_url |-> url, body |-> IF is_empty(outcome) THEN "empty" ELSE "bytes",
     page_index |-> index]

\* the configurations of a source with fetch.mode = http
FetchConfigs ==
    {[method |-> m, base_url |-> u, retry_attempts |-> r,
      enabled |-> e, strategy |-> st, page_param |-> "page",
      start_page |-> sp, max_pages |-> Usize(mp), stop_when_no_results |-> stop] :
        m \in {"get", "PUT"},
        u \in {Url(TRUE, <<>>),
               Url(TRUE, << <<"page", Usize(9)>>, <<"q", Usize(1)>> >>),
               Url(FALSE, <<>>)},
        r \in RetryAttempts,
        e \in BOOLEAN,
        st \in {"query_param", "next_link"},
        sp \in {Usize(0), overflowing_add(UsizeMax, UsizeMax).value, UsizeMax},
        mp \in MaxPages,
        stop \in BOOLEAN}

\* fetch_http_documents at one of its points: at its start, at the head of
\* the page loop, in fetch_with_retries before an attempt, returned, panicked
Fetching(cfg) ==
    [input |-> <<cfg>>, at |-> "start", page |-> None, end |-> None, index |-> 0,
     attempt |-> 0, requests |-> <<>>, docs |-> <<>>, output |-> <<>>]

FetchInit ==
    /\ Resting
    /\ call \in {Fetching(cfg) : cfg \in FetchConfigs}

\* fetch_http_documents up to the page loop. start + max_pages beyond the
\* width of usize panics in a build with overflow checks and wraps in one
\* without
BeginFetch ==
    /\ Len(call.input) = 1 /\ call.at = "start"
    /\ LET cfg == call.input[1]
           sum == overflowing_add(cfg.start_page, cfg.max_pages)
       IN IF cfg.enabled
          THEN \/ /\ sum.overflow
                  /\ call' = [call EXCEPT !.at = "panicked"]
               \/ call' = [call EXCEPT !.at = "page",
                                       !.page = Some(cfg.start_page),
                                       !.end = Some(sum.value)]
          ELSE call' = [call EXCEPT !.at = "attempt", !.attempt = 1]
    /\ UNCHANGED <<now, others>>

\* the head of the loop over (start..end): the loop ends, build_paged_url
\* fails, or fetch_with_retries is entered for the page
NextPage ==
    /\ Len(call.input) = 1 /\ call.at = "page"
    /\ LET cfg == call.input[1]
       IN call' = IF ~LessUsize(Unwrap(call.page), Unwrap(call.end))
                  THEN [call EXCEPT !.at = "returned", !.output = <<Ok(call.docs)>>]
                  ELSE IF ~cfg.base_url.valid
                  THEN [call EXCEPT !.at = "returned", !.output = <<Err("url")>>]
                  ELSE [call EXCEPT !.at = "attempt", !.attempt = 1]
    /\ UNCHANGED <<now, others>>

\* the URL fetch_with_retries is called with
RequestUrl(c) ==
    IF c.input[1].enabled
    THEN build_paged_url(c.input[1].base_url, c.input[1].page_param, Unwrap(c.page))
    ELSE c.input[1].base_url

\* one pass of the loop of fetch_with_retries, and what fetch_http_documents
\* does with the bytes when the pass returns them
Attempt(outcome) ==
    /\ Len(call.input) = 1 /\ call.at = "attempt"
    /\ ~call.input[1].base_url.valid => outcome = "error"
    /\ LET cfg == call.input[1]
           attempts == max(cfg.retry_attempts, 1)
           url == RequestUrl(call)
           retried == retry(outcome, call.attempt, attempts)
           sent == Append(call.requests,
                          [url |-> url, index |-> call.index,
                           attempt |-> call.attempt, outcome |-> outcome,
                           slept |-> retried])
           doc == FetchedDocument(url, outcome, call.index)
       IN call' =
            IF to_ascii_uppercase_method(cfg.method) \notin {"GET", "POST"}
            THEN [call EXCEPT !.at = "returned", !.output = <<Err("method")>>]
            ELSE IF retried
            THEN [call EXCEPT !.requests = sent, !.attempt = @ + 1]
            ELSE IF ~is_success(outcome)
            THEN [call EXCEPT !.requests = sent, !.at = "returned",
                              !.output = <<Err("request")>>]
            ELSE IF outcome = "ok_body_error"
            THEN [call EXCEPT !.requests = sent, !.at = "returned",
                              !.output = <<Err("body")>>]
            ELSE IF ~cfg.enabled
            THEN [call EXCEPT !.requests = sent, !.at = "returned",
                              !.docs = <<doc>>, !.output = <<Ok(<<doc>>)>>]
            ELSE IF is_empty(outcome) /\ cfg.stop_when_no_results
            THEN [call EXCEPT !.requests = sent, !.at = "returned",
                              !.output = <<Ok(call.docs)>>]
            ELSE [call EXCEPT !.requests = sent, !.at = "page",
                              !.docs = Append(@, doc),
                              !.page = Some(overflowing_add(Unwrap(@), Usize(1)).value),
                              !.index = @ + 1]
    /\ UNCHANGED <<now, others>>

FetchNext == BeginFetch \/ NextPage \/ \E outcome \in Outcomes : Attempt(outcome)

FetchSpec == FetchInit /\ [][FetchNext]_vars

\* ---------------------------------------------------------------- buckets
\* EventTimeSpec::start_date and end_date_exclusive and the DTSTART / DTEND
\* lines of append_event_lines, on the Gregorian calendar of chrono
I32Max == 2147483647
I32Min == (-2147483647) - 1
\* the years of NaiveDate::MIN and NaiveDate::MAX
MIN_YEAR == -262143
MAX_YEAR == 262142

Month(year, month) == [kind |-> "month", year |-> year, month |-> month, quarter |-> 0]
Quarter(year, quarter) == [kind |-> "quarter", year |-> year, month |-> 0, quarter |-> quarter]
Year(year) == [kind |-> "year", year |-> year, month |-> 0, quarter |-> 0]

NaiveDate(year, month, day) == [year |-> year, month |-> month, day |-> day]

\* NaiveDate::from_ymd_opt for a day every month has
NaiveDate_from_ymd_opt(year, month, day) ==
    IF /\ year >= MIN_YEAR /\ year <= MAX_YEAR
       /\ month >= 1 /\ month <= 12
       /\ day >= 1 /\ day <= 28
    THEN Some(NaiveDate(year, month, day))
    ELSE None

\* 1 + ((quarter as u32).saturating_sub(1) * 3)
first_month(quarter) == 1 + ((IF quarter = 0 THEN 0 ELSE quarter - 1) * 3)

\* EventTimeSpec::start_date
EventTimeSpec_start_date(t) ==
    CASE t.kind = "month" -> NaiveDate_from_ymd_opt(t.year, t.month, 1)
      [] t.kind = "quarter" -> NaiveDate_from_ymd_opt(t.year, first_month(t.quarter), 1)
      [] t.kind = "year" -> NaiveDate_from_ymd_opt(t.year, 1, 1)

\* `*year + 1` on an i32: beyond i32::MAX the build with overflow checks
\* panics and the one without wraps
plus_one(year) ==
    IF year = I32Max
    THEN {[panic |-> TRUE, year |-> 0], [panic |-> FALSE, year |-> I32Min]}
    ELSE {[panic |-> FALSE, year |-> year + 1]}

Returns(date) == [panic |-> FALSE, date |-> date]
Panics == [panic |-> TRUE, date |-> None]

\* a faulty variant of end_date_exclusive: the last month, the last quarter
\* and the year do not roll over into the next year
end_date_without_rollover(t) ==
    CASE t.kind = "month" ->
            {Returns(NaiveDate_from_ymd_opt(t.year, t.month + 1, 1))}
      [] t.kind = "quarter" ->
            {Returns(NaiveDate_from_ymd_opt(t.year, first_month(t.quarter) + 3, 1))}
      [] t.kind = "year" ->
            {Returns(NaiveDate_from_ymd_opt(t.year, 13, 1))}

\* EventTimeSpec::end_date_exclusive: the outcomes of a call
EventTimeSpec_end_date_exclusive(t) ==
    CASE t.kind = "month" ->
            IF t.month = 12
            THEN {IF n.panic THEN Panics
                  ELSE Returns(NaiveDate_from_ymd_opt(n.year, 1, 1)) : n \in plus_one(t.year)}
            ELSE {Returns(NaiveDate_from_ymd_opt(t.year, t.month + 1, 1))}
      [] t.kind = "quarter" ->
            LET next_month == first_month(t.quarter) + 3
            IN IF next_month > 12
               THEN {IF n.panic THEN Panics
                     ELSE Returns(NaiveDate_from_ymd_opt(n.year, next_month - 12, 1)) :
                        n \in plus_one(t.year)}
               ELSE {Returns(NaiveDate_from_ymd_opt(t.year, next_month, 1))}
      [] t.kind = "year" ->
            {IF n.panic THEN Panics
             ELSE Returns(NaiveDate_from_ymd_opt(n.year, 1, 1)) : n \in plus_one(t.year)}

\* format!("{:04}", n) and format!("{:02}", n)
Pad4(n) ==
    IF n < 0
    THEN "-" \o (IF -n < 10 THEN "00" ELSE IF -n < 100 THEN "0" ELSE "") \o ToString(-n)
    ELSE (IF n < 10 THEN "000" ELSE IF n < 100 THEN "00" ELSE IF n < 1000 THEN "0" ELSE "")
            \o ToString(n)
Pad2(n) == (IF n < 10 THEN "0" ELSE "") \o ToString(n)

format_date(value) == Pad4(value.year) \o Pad2(value.month) \o Pad2(value.day)

NoLines == [panic |-> FALSE, dtstart |-> None, dtend |-> None]

\* the arms Month, Quarter and Year of append_event_lines: the values of the
\* DTSTART;VALUE=DATE and DTEND;VALUE=DATE lines pushed
append_time_lines(t) ==
    LET start == EventTimeSpec_start_date(t)
    IN IF ~IsSome(start) THEN {NoLines}
       ELSE {[panic |-> end.panic,
              dtstart |-> Some(format_date(Unwrap(start))),
              dtend |-> IF IsSome(end.date) THEN Some(format_date(Unwrap(end.date)))
                        ELSE None] :
                end \in EventTimeSpec_end_date_exclusive(t)}

\* the years of the times: of today's feeds, the last two years chrono has,
\* the first one, the years next to them and the ends of i32
BucketYears == {BaseYear, MAX_YEAR - 1, MAX_YEAR, MAX_YEAR + 1, MIN_YEAR,
                MIN_YEAR - 1, I32Max, I32Min}

BucketTimes ==
    {Month(y, m) : y \in BucketYears, m \in 1..12}
        \cup {Quarter(y, q) : y \in BucketYears, q \in 1..4}
        \cup {Year(y) : y \in BucketYears}

\* a time and what the three functions have given for it so far
Bucketing(t) == [input |-> <<t>>, start |-> <<>>, end |-> <<>>, lines |-> <<>>]

BucketInit ==
    /\ Resting
    /\ call \in {Bucketing(t) : t \in BucketTimes}

CallStartDate ==
    /\ Len(call.input) = 1 /\ call.start = <<>>
    /\ call' = [call EXCEPT !.start = <<EventTimeSpec_start_date(call.input[1])>>]
    /\ UNCHANGED <<now, others>>

CallEndDateExclusive ==
    /\ Len(call.input) = 1 /\ call.end = <<>>
    /\ \E r \in EventTimeSpec_end_date_exclusive(call.input[1]) :
          call' = [call EXCEPT !.end = <<r>>]
    /\ UNCHANGED <<now, others>>

CallAppendEventLines ==
    /\ Len(call.input) = 1 /\ call.lines = <<>>
    /\ \E l \in append_time_lines(call.input[1]) :
          call' = [call EXCEPT !.lines = <<l>>]
    /\ UNCHANGED <<now, others>>

BucketNext == CallStartDate \/ CallEndDateExclusive \/ CallAppendEventLines

BucketSpec == BucketInit /\ [][BucketNext]_vars

\* -------------------------------------------------------------------- map
\* the loop `for (field, rule) in &source.map` of parse_html_document,
\* parse_json_document and parse_text_document for one record
\* target fields of the map and the names a `field:` expression may hold
Targets == {"Date", "title", "url"}
RefNames == Targets \cup {"venue"}

\* the position of a name in the byte order of String::cmp
FieldRank(name) ==
    CASE name = "Date" -> 1
      [] name = "title" -> 2
      [] name = "url" -> 3
      [] name = "venue" -> 4

\* a FieldRule: `const`, or `from` with a `field:` or a `css:` / `json:` /
\* `regex:` expression; trim or regex of the rule set
FieldRule(kind, arg, post) == [kind |-> kind, arg |-> arg, post |-> post]
FieldRules ==
    {FieldRule("const", v, post) : v \in {"v", " "}, post \in {"none", "trim"}}
        \cup {FieldRule("field", n, post) : n \in RefNames, post \in {"none", "trim"}}
        \cup {FieldRule("select", "", post) : post \in {"none", "trim", "regex"}}

\* source.map: a rule for some of the target fields
Maps == [Targets -> {None} \cup {Some(rule) : rule \in FieldRules}]

\* a faulty variant of iter: the fields come in descending order
iter_descending(map) ==
    SortSeq(SetToSeq({f \in Targets : IsSome(map[f])}),
            LAMBDA x, y : FieldRank(x) > FieldRank(y))

\* BTreeMap::iter: the fields of the map in ascending order of their names
iter(map) ==
    SortSeq(SetToSeq({f \in Targets : IsSome(map[f])}),
            LAMBDA x, y : FieldRank(x) < FieldRank(y))

\* what a css:, json: or regex: expression can select from a record
Selections == {None, Some(" "), Some("v")}

\* evaluate_from_expression: a `field:` expression reads the fields mapped so
\* far, another expression selects from the record
evaluate_from_expression(rule, existing, selected) ==
    IF rule.kind = "field" THEN existing[rule.arg] ELSE selected

trim(v) == IF v = " " THEN "" ELSE v

\* evaluate_field_rule; matched is what extract_with_regex gives for the
\* rule's regex
evaluate_field_rule(rule, existing, selected, matched) ==
    LET value == IF rule.kind = "const" THEN Some(rule.arg)
                 ELSE evaluate_from_expression(rule, existing, selected)
        extracted == IF rule.post = "regex" /\ IsSome(value) THEN matched ELSE value
        trimmed == IF rule.post = "trim" /\ IsSome(extracted)
                   THEN Some(trim(Unwrap(extracted)))
                   ELSE extracted
    IN IF IsSome(trimmed) /\ Unwrap(trimmed) = "" THEN None ELSE trimmed

\* the loop over the map for one record: the fields still to evaluate, the
\* fields mapped so far, the fields evaluated, what the `field:` expressions
\* yielded
Mapping(map) ==
    [input |-> <<map>>, remaining |-> iter(map),
     mapped |-> [n \in RefNames |-> None], evaluated |-> <<>>, yields |-> <<>>]

MapInit ==
    /\ Resting
    /\ call \in {Mapping(map) : map \in Maps}

\* one pass of the loop
EvalField(selected, matched) ==
    /\ Len(call.input) = 1 /\ call.remaining # <<>>
    /\ LET field == Head(call.remaining)
           rule == Unwrap(call.input[1][field])
           value == evaluate_field_rule(rule, call.mapped, selected, matched)
       IN /\ rule.kind # "select" => selected = None
          /\ rule.post # "regex" => matched = None
          /\ call' = [call EXCEPT
                        !.remaining = Tail(@),
                        !.evaluated = Append(@, field),
                        !.mapped = IF IsSome(value) THEN [@ EXCEPT ![field] = value] ELSE @,
                        !.yields = IF rule.kind = "field"
                                   THEN Append(@, [target |-> field, name |-> rule.arg,
                                                   value |-> evaluate_from_expression(
                                                                 rule, call.mapped, selected)])
                                   ELSE @]
    /\ UNCHANGED <<now, others>>

MapNext == \E selected \in Selections, matched \in {None, Some("v")} :
              EvalField(selected, matched)

MapSpec == MapInit /\ [][MapNext]_vars

\* ------------------------------------------------------------------ dates
\* parse_event_time on the characters of a start string; end_raw and the
\* timezone are None
chars(str) == [i \in 1..Len(str) |-> SubSeq(str, i, i)]

DigitChars == <<"0", "1", "2", "3", "4", "5", "6", "7", "8", "9">>
is_ascii_digit(c) == \E i \in 1..10 : DigitChars[i] = c
to_digit(c) == (CHOOSE i \in 1..10 : DigitChars[i] = c) - 1

RECURSIVE trim_start(_)
trim_start(s) == IF s # <<>> /\ Head(s) = " " THEN trim_start(Tail(s)) ELSE s
RECURSIVE trim_end(_)
trim_end(s) ==
    IF s # <<>> /\ s[Len(s)] = " " THEN trim_end(SubSeq(s, 1, Len(s) - 1)) ELSE s
\* str::trim
trim_chars(s) == trim_end(trim_start(s))

\* the digits of s from the left as a number that grows downwards, as
\* i32::from_str_radix accumulates them; None for a character that is no
\* digit and for a number outside i32
RECURSIVE checked_digits(_, _, _)
checked_digits(s, acc, negative) ==
    IF s = <<>> THEN Some(acc)
    ELSE IF ~is_ascii_digit(Head(s)) THEN None
    ELSE LET d == to_digit(Head(s))
         IN IF \/ acc < -214748364
               \/ acc = -214748364 /\ d > (IF negative THEN 8 ELSE 7)
            THEN None
            ELSE checked_digits(Tail(s), acc * 10 - d, negative)

\* str::parse::<i32>: an optional sign and one digit or more
parse_i32(s) ==
    LET negative == s # <<>> /\ Head(s) = "-"
        digits == IF s # <<>> /\ Head(s) \in {"+", "-"} THEN Tail(s) ELSE s
        n == checked_digits(digits, 0, negative)
    IN IF digits = <<>> \/ ~IsSome(n) THEN None
       ELSE Some(IF negative THEN Unwrap(n) ELSE -Unwrap(n))

\* scan::number: how many digits, at most max, s begins with
RECURSIVE leading_digits(_, _)
leading_digits(s, max_width) ==
    IF max_width > 0 /\ s # <<>> /\ is_ascii_digit(Head(s))
    THEN 1 + leading_digits(Tail(s), max_width - 1)
    ELSE 0

RECURSIVE number(_)
number(digits) ==
    IF digits = <<>> THEN 0
    ELSE number(SubSeq(digits, 1, Len(digits) - 1)) * 10 + to_digit(digits[Len(digits)])

ShortMonths == <<"Jan", "Feb", "Mar", "Apr", "May", "Jun",
                 "Jul", "Aug", "Sep", "Oct", "Nov", "Dec">>
LongSuffixes == <<"uary", "ruary", "ch", "il", "", "e",
                  "y", "ust", "tember", "ober", "ember", "ember">>

\* scan::short_month0 and scan::short_or_long_month0 for names written with
\* a capital: the month and the rest of s
month_name(s, long) ==
    LET hits == {m \in 1..12 : Len(s) >= 3 /\ chars(ShortMonths[m]) = SubSeq(s, 1, 3)}
    IN IF hits = {} THEN None
       ELSE LET m == CHOOSE h \in hits : TRUE
                rest == SubSeq(s, 4, Len(s))
                suffix == chars(LongSuffixes[m])
            IN Some([month |-> m,
                     rest |-> IF /\ long /\ Len(rest) >= Len(suffix)
                                 /\ SubSeq(rest, 1, Len(suffix)) = suffix
                              THEN SubSeq(rest, Len(suffix) + 1, Len(rest))
                              ELSE rest])

\* chrono::format::Parsed
NoFields == [year |-> None, month |-> None, day |-> None,
             hour |-> None, minute |-> None, second |-> None]

NumericItems == {"%Y", "%m", "%d", "%H", "%M", "%S"}
FieldOf(item) ==
    CASE item = "%Y" -> "year" [] item = "%m" -> "month" [] item = "%d" -> "day"
      [] item = "%H" -> "hour" [] item = "%M" -> "minute" [] item = "%S" -> "second"

\* chrono::format::parse for the items of this model: a numeric item skips
\* white space and takes up to two digits, %Y up to four, or any number of
\* digits (here at most nine) after a sign; white space in the format takes
\* any white space; another character takes itself; input left over is an
\* error
RECURSIVE strptime(_, _, _)
strptime(s, items, fields) ==
    IF items = <<>> THEN (IF s = <<>> THEN Some(fields) ELSE None)
    ELSE LET item == Head(items)
         IN IF item = " " THEN strptime(trim_start(s), Tail(items), fields)
            ELSE IF item \in NumericItems
            THEN LET t == trim_start(s)
                     signed == item = "%Y" /\ t # <<>> /\ Head(t) \in {"+", "-"}
                     body == IF signed THEN Tail(t) ELSE t
                     n == leading_digits(body, IF signed THEN 9
                                               ELSE IF item = "%Y" THEN 4 ELSE 2)
                     v == number(SubSeq(body, 1, n))
                 IN IF n = 0 \/ (signed /\ leading_digits(body, 10) > 9) THEN None
                    ELSE strptime(SubSeq(body, n + 1, Len(body)), Tail(items),
                                  [fields EXCEPT ![FieldOf(item)] =
                                      Some(IF signed /\ Head(t) = "-" THEN -v ELSE v)])
            ELSE IF item \in {"%B", "%b"}
            THEN LET m == month_name(s, item = "%B")
                 IN IF ~IsSome(m) THEN None
                    ELSE strptime(Unwrap(m).rest, Tail(items),
                                  [fields EXCEPT !.month = Some(Unwrap(m).month)])
            ELSE IF s # <<>> /\ Head(s) = item
                 THEN strptime(Tail(s), Tail(items), fields)
                 ELSE None

\* Parsed::to_naive_date
to_naive_date(parsed) ==
    IF ~IsSome(parsed) THEN None
    ELSE LET f == Unwrap(parsed)
         IN IF IsSome(f.year) /\ IsSome(f.month) /\ IsSome(f.day)
            THEN NaiveDate_from_ymd_opt(Unwrap(f.year), Unwrap(f.month), Unwrap(f.day))
            ELSE None

NaiveDateTime(date, hour, minute, second) ==
    [year |-> date.year, month |-> date.month, day |-> date.day,
     hour |-> hour, minute |-> minute, second |-> second]

\* Parsed::to_naive_datetime_with_offset: the date, the hour and the minute
\* must be there
to_naive_datetime(parsed) ==
    IF ~IsSome(to_naive_date(parsed)) THEN None
    ELSE LET f == Unwrap(parsed)
         IN IF /\ IsSome(f.hour) /\ Unwrap(f.hour) <= 23
               /\ IsSome(f.minute) /\ Unwrap(f.minute) <= 59
               /\ IsSome(f.second) => Unwrap(f.second) <= 59
            THEN Some(NaiveDateTime(Unwrap(to_naive_date(parsed)),
                                    Unwrap(f.hour), Unwrap(f.minute),
                                    IF IsSome(f.second) THEN Unwrap(f.second) ELSE 0))
            ELSE None

NaiveDate_parse_from_str(s, format) == to_naive_date(strptime(s, format, NoFields))
NaiveDateTime_parse_from_str(s, format) == to_naive_datetime(strptime(s, format, NoFields))

\* DateTime::parse_from_rfc3339 for a time in UTC without fraction:
\* YYYY-MM-DDTHH:MM:SSZ with every number at its full width
parse_from_rfc3339(s) ==
    IF /\ Len(s) = 20
       /\ \A i \in {1, 2, 3, 4, 6, 7, 9, 10, 12, 13, 15, 16, 18, 19} : is_ascii_digit(s[i])
       /\ s[5] = "-" /\ s[8] = "-" /\ s[11] = "T"
       /\ s[14] = ":" /\ s[17] = ":" /\ s[20] = "Z"
    THEN to_naive_datetime(Some([year |-> Some(number(SubSeq(s, 1, 4))),
                                 month |-> Some(number(SubSeq(s, 6, 7))),
                                 day |-> Some(number(SubSeq(s, 9, 10))),
                                 hour |-> Some(number(SubSeq(s, 12, 13))),
                                 minute |-> Some(number(SubSeq(s, 15, 16))),
                                 second |-> Some(number(SubSeq(s, 18, 19)))]))
    ELSE None

\* parse_month_year: the formats "%B %Y", "%b %Y", "%Y-%m" and "%Y/%m", each
\* with "-%d" at its end, on the value with "-01" at its end
MonthYearFormats ==
    << <<"%B", " ", "%Y", "-", "%d">>, <<"%b", " ", "%Y", "-", "%d">>,
       <<"%Y", "-", "%m", "-", "%d">>, <<"%Y", "/", "%m", "-", "%d">> >>
parse_month_year(value) ==
    LET hits == {i \in 1..4 :
                    IsSome(NaiveDate_parse_from_str(value \o chars("-01"),
                                                    MonthYearFormats[i]))}
    IN IF hits = {} THEN None
       ELSE LET first == CHOOSE i \in hits : \A j \in hits : i <= j
                date == Unwrap(NaiveDate_parse_from_str(value \o chars("-01"),
                                                        MonthYearFormats[first]))
            IN Some([month |-> date.month, year |-> date.year])

\* parse_quarter_year: (?i)^Q([1-4])\s*[- ]?\s*(\d{4})$ on the trimmed value
parse_quarter_year(value) ==
    LET s == trim_chars(value)
    IN IF Len(s) < 6 \/ s[1] \notin {"Q", "q"} \/ s[2] \notin {"1", "2", "3", "4"}
       THEN None
       ELSE LET a == trim_start(SubSeq(s, 3, Len(s)))
                b == IF a # <<>> /\ Head(a) = "-" THEN Tail(a) ELSE a
                c == trim_start(b)
            IN IF Len(c) = 4 /\ \A i \in 1..4 : is_ascii_digit(c[i])
               THEN Some([quarter |-> to_digit(s[2]), year |-> number(c)])
               ELSE None

\* the variants of EventTimeSpec as parse_event_time returns them
NoTime == [kind |-> "", year |-> 0, month |-> 0, day |-> 0, hour |-> 0,
           minute |-> 0, second |-> 0, quarter |-> 0, note |-> None]
EventTimeSpec_Tbd(note) == [NoTime EXCEPT !.kind = "Tbd", !.note = note]
EventTimeSpec_DateTime(start) ==
    [NoTime EXCEPT !.kind = "DateTime", !.year = start.year, !.month = start.month,
                   !.day = start.day, !.hour = start.hour, !.minute = start.minute,
                   !.second = start.second]
EventTimeSpec_Date(start) ==
    [NoTime EXCEPT !.kind = "Date", !.year = start.year, !.month = start.month,
                   !.day = start.day]
EventTimeSpec_Month(year, month) ==
    [NoTime EXCEPT !.kind = "Month", !.year = year, !.month = month]
EventTimeSpec_Quarter(year, quarter) ==
    [NoTime EXCEPT !.kind = "Quarter", !.year = year, !.quarter = quarter]
EventTimeSpec_Year(year) == [NoTime EXCEPT !.kind = "Year", !.year = year]

\* the loop `for format in &date_cfg.formats`: each format is tried for a
\* datetime and then for a date before the next format is
RECURSIVE first_format(_, _)
first_format(start_raw, formats) ==
    IF formats = <<>> THEN None
    ELSE LET dt == NaiveDateTime_parse_from_str(start_raw, Head(formats))
             date == NaiveDate_parse_from_str(start_raw, Head(formats))
         IN IF IsSome(dt) THEN Some(EventTimeSpec_DateTime(Unwrap(dt)))
            ELSE IF IsSome(date) THEN Some(EventTimeSpec_Date(Unwrap(date)))
            ELSE first_format(start_raw, Tail(formats))

parse_event_time(raw, date_cfg) ==
    LET start_raw == trim_chars(raw)
    IN IF start_raw = <<>> THEN EventTimeSpec_Tbd(None)
       ELSE IF IsSome(parse_from_rfc3339(start_raw))
       THEN EventTimeSpec_DateTime(Unwrap(parse_from_rfc3339(start_raw)))
       ELSE IF IsSome(first_format(start_raw, date_cfg.formats))
       THEN Unwrap(first_format(start_raw, date_cfg.formats))
       ELSE IF IsSome(parse_month_year(start_raw)) /\ date_cfg.allow_month_only
       THEN EventTimeSpec_Month(Unwrap(parse_month_year(start_raw)).year,
                                Unwrap(parse_month_year(start_raw)).month)
       ELSE IF IsSome(parse_quarter_year(start_raw))
       THEN EventTimeSpec_Quarter(Unwrap(parse_quarter_year(start_raw)).year,
                                  Unwrap(parse_quarter_year(start_raw)).quarter)
       ELSE IF IsSome(parse_i32(start_raw)) /\ date_cfg.allow_year_only
       THEN EventTimeSpec_Year(Unwrap(parse_i32(start_raw)))
       ELSE EventTimeSpec_Tbd(Some(start_raw))

\* default_date_formats
default_date_formats ==
    << <<"%Y", "-", "%m", "-", "%d">>, <<"%Y", "/", "%m", "/", "%d">>,
       <<"%B", " ", "%d", ",", " ", "%Y">>, <<"%b", " ", "%d", ",", " ", "%Y">>,
       <<"%B", " ", "%Y">>, <<"%b", " ", "%Y">>, <<"%Y">> >>

\* the format lists of the configurations: the default one, one with a
\* format to the minute before it, and one whose first format reads a date
\* and an hour and whose second reads a datetime from the same text
FormatLists ==
    {default_date_formats,
     << <<"%Y", "-", "%m", "-", "%d", " ", "%H", ":", "%M">> >> \o default_date_formats,
     << <<"%Y", "-", "%m", "-", "%d", " ", "%H", "3", "0">>,
        <<"%Y", "-", "%m", "-", "%d", " ", "%H", "%M">> >>}

DateConfigs ==
    [formats : FormatLists, allow_month_only : BOOLEAN, allow_year_only : BOOLEAN]

StartStrings ==
    {"", " ", "2026-05-01T10:00:00Z", "2026-05-01", " 2026/05/01 ", "May 01, 2026",
     "2026-05-01 10:30", "2026-05-01 1030", "May 2026", "December 2026", "Dec 2026",
     "2026-05", "2026/05", "2026-13", "Q1 2026", "q4-2026", "Q2  -  2026", "Q5 2026",
     "Q3 26", "2026", " 2026 ", "0026", "12", "99999", "-5", "+2026", "2147483647",
     "2147483648", "-2147483648", "20x6", "TBD", "-", "Spring 2026"}

\* a start string, a date configuration and what parse_event_time has given
Parsing(raw, date_cfg) == [input |-> <<raw, date_cfg>>, time |-> None]

ParseInit ==
    /\ Resting
    /\ call \in {Parsing(chars(raw), date_cfg) : raw \in StartStrings, date_cfg \in DateConfigs}

CallParseEventTime ==
    /\ Len(call.input) = 2 /\ "time" \in DOMAIN call /\ call.time = None
    /\ call' = [call EXCEPT !.time = Some(parse_event_time(call.input[1], call.input[2]))]
    /\ UNCHANGED <<now, others>>

ParseNext == CallParseEventTime

ParseSpec == ParseInit /\ [][ParseNext]_vars

\* ---------------------------------------------------------------- extract
\* parse_declarative_events for the mapped records of one document of
\* source a, and the merge of the candidates it gives
DocumentUrl == "https://feed/a"

\* a MappedRecord: the fields mapped_record_to_event reads for the title,
\* the URL, the id and the start
MappedRecord(title, url, link, source_event_id, id, date) ==
    [fields |-> [title |-> title, name |-> None, url |-> url, link |-> link,
                 source_event_id |-> source_event_id, id |-> id, date |-> date],
     source_url |-> DocumentUrl]

MappedRecords ==
    {MappedRecord(title, url, link, source_event_id, id, date) :
        title \in {None, Some("Report A"), Some("Report B")},
        url \in {None, Some("u1")}, link \in {None, Some("u2")},
        source_event_id \in {None, Some("e4")}, id \in {None, Some("e1")},
        date \in {None, Some("2027")}}

\* Option::or_else
or_else(a, b) == IF IsSome(a) THEN a ELSE b

\* DateConfig::default
DefaultDateConfig ==
    [formats |-> default_date_formats, allow_month_only |-> TRUE, allow_year_only |-> TRUE]

\* the time parse_event_time gives for the start strings of MappedRecords, in
\* the form the merge holds it
TimeSpecOf(t) ==
    CASE t.kind = "Year" -> YearSpec(t.year)
      [] t.kind = "Tbd" -> TbdSpec

\* EventTimeSpec::precision
precision(time) == time.kind

\* a faulty variant of mapped_record_to_event: source_url does not fall back
\* to the URL of the document
mapped_record_without_fallback(source_key, mapped) ==
    LET f == mapped.fields
        title == or_else(f.title, f.name)
        time == IF IsSome(f.date)
                THEN TimeSpecOf(parse_event_time(chars(Unwrap(f.date)), DefaultDateConfig))
                ELSE TbdSpec
    IN IF ~IsSome(title) THEN None
       ELSE Some([Cand(source_key, or_else(f.source_event_id, f.id),
                       or_else(f.url, f.link), Unwrap(title), time, "scheduled", <<"econ">>)
                    EXCEPT !.metadata = << <<"time_precision", precision(time)>> >>])

\* mapped_record_to_event for a source with the default [date] and [event]
\* sections and the domain econ
mapped_record_to_event(source_key, mapped) ==
    LET f == mapped.fields
        title == or_else(f.title, f.name)
        source_url == or_else(or_else(f.url, f.link), Some(mapped.source_url))
        source_event_id == or_else(f.source_event_id, f.id)
        start_raw == f.date
        time == IF IsSome(start_raw)
                THEN TimeSpecOf(parse_event_time(chars(Unwrap(start_raw)), DefaultDateConfig))
                ELSE TbdSpec
    IN IF ~IsSome(title) THEN None
       ELSE Some([Cand(source_key, source_event_id, source_url, Unwrap(title), time,
                       "scheduled", <<"econ">>)
                    EXCEPT !.metadata = << <<"time_precision", precision(time)>> >>])

\* the mapped records of the document, those still to convert, the events
Extracting(records) == [input |-> <<records>>, remaining |-> records, events |-> <<>>]

\* `sync --source a` over an empty store has fetched a document and has
\* mapped its records
ExtractInit ==
    /\ disk = AbsentDoc
    /\ files = [f \in FileNames |-> AbsentFile]
    /\ now = 0
    /\ pc = "parse"
    /\ opts = Opt(Some("a"), FALSE)
    /\ config = AllEnabled
    /\ pending = <<>>
    /\ fixture = NoFixture
    /\ queue = <<"a">>
    /\ state = load_state(disk)
    /\ seen_uids = {}
    /\ changed_years = {}
    /\ report = NoReport
    /\ reports = <<>>
    /\ to_write = {}
    /\ err = "none"
    /\ last_cands = [s \in Sources |-> None]
    /\ start_disk = disk
    /\ start_files = files
    /\ swept = {}
    /\ ideal = files
    /\ ideal_base = files
    /\ rerun_of = NoFixture
    /\ call \in {Extracting(records) : records \in SeqsUpTo(MappedRecords, MaxLen)}

\* one pass of the loop `for mapped in mapped_records`
MapRecord ==
    /\ pc = "parse" /\ call.remaining # <<>>
    /\ LET event == mapped_record_to_event(Head(queue), Head(call.remaining))
       IN call' = [call EXCEPT !.remaining = Tail(@),
                               !.events = IF IsSome(event) THEN Append(@, Unwrap(event))
                                          ELSE @]
    /\ UNCHANGED <<disk, files, now, pc, opts, config, fixture, queue, state, pending,
                   seen_uids, changed_years, report, reports, to_write, err,
                   last_cands, start_disk, start_files, swept, ideal, ideal_base, rerun_of>>

\* parse_source_events returns the events; merge_source_events starts and
\* reads the clock
EnterMerge ==
    /\ pc = "parse" /\ call.remaining = <<>>
    /\ fixture' = [fixture EXCEPT ![Head(queue)] = Fetched(call.events)]
    /\ now' = now + 1
    /\ pc' = "merge"
    /\ pending' = call.events
    /\ report' = [NoReport EXCEPT !.source_key = Head(queue),
                                  !.records_parsed = Len(call.events)]
    /\ UNCHANGED <<call, disk, files, opts, config, queue, state, seen_uids,
                   changed_years, reports, to_write, err, last_cands, start_disk,
                   start_files, swept, ideal, ideal_base, rerun_of>>

ExtractNext == MapRecord \/ EnterMerge \/ MergeCandidate \/ Sweep

ExtractSpec == ExtractInit /\ [][ExtractNext]_vars

\* ------------------------------------------------------------ properties
\* vocabulary of the properties
Lists(f, u) == \E i \in 1..Len(f.events) : f.events[i].uid = u
Reported(s) == \E i \in 1..Len(reports) : reports[i].source_key = s
SameInput(s) == fixture[s].kind = "ok" /\ last_cands[s] = Some(fixture[s].cands)
CandUids(l) == {stable_uid(normalize(l[i])) : i \in 1..Len(l)}
HashesOf(l, u) ==
    {revision_hash(normalize(l[i])) : i \in {j \in 1..Len(l) : stable_uid(normalize(l[j])) = u}}
ConsistentDups(l) == \A u \in CandUids(l) : Cardinality(HashesOf(l, u)) = 1
MergeStep == pc = "merge" /\ pending # <<>> /\ pending' = Tail(pending)
SweepStep == pc = "merge" /\ pending = <<>> /\ pc' \in {"source", "rebuild"}
SourceFailed(s) ==
    config[s] = "config_error" \/ fixture[s].kind \in {"fetch_error", "parse_error"}

\* C1: when the sweep of a prior run has cancelled a record (its status is
\* "cancelled" while its stored revision hash is still the one of its original
\* content) and a candidate identical to that original content is merged, the
\* candidate is classified as updated: updated is counted, the status is the
\* candidate's again, the sequence is incremented and the year bucket is in
\* changed_years.
C1ReappearanceIsUpdate ==
    [][MergeStep =>
         LET candidate == normalize(Head(pending))
             uid == stable_uid(candidate)
             yb == year_bucket(candidate.time)
         IN (/\ uid \in DOMAIN state.events
             /\ state.events[uid].status = "cancelled"
             /\ candidate.status # "cancelled"
             /\ state.events[uid].revision_hash = revision_hash(candidate))
            => /\ report'.updated = report.updated + 1
               /\ report'.unchanged = report.unchanged
               /\ state'.events[uid].status = candidate.status
               /\ state'.events[uid].sequence =
                      IF state.events[uid].sequence = U32Max THEN U32Max
                      ELSE Succ32(state.events[uid].sequence)
               /\ (IsSome(yb) => Unwrap(yb) \in changed_years')]_vars

\* C2: after a sync whose sweep has cancelled a record, the calendar file of
\* the record's source and year does not list the record, also when no other
\* record of that source and year is left uncancelled.
C2CancelledLeavesCalendar ==
    (pc = "done" /\ ~opts.dry_run) =>
        \A u \in swept :
            LET r == state.events[u]
            IN IsSome(year_bucket(r.time)) =>
                  ~Lists(files[FileName(r.source_key, Unwrap(year_bucket(r.time)))], u)

\* C3 as stated: a source merged with the candidate list of its last
\* committed merge reports inserted = 0, updated = 0 and cancelled = 0.
C3SecondRunAllUnchanged ==
    \A i \in 1..Len(reports) :
        SameInput(reports[i].source_key) =>
            /\ reports[i].inserted = 0
            /\ reports[i].updated = 0
            /\ reports[i].cancelled = 0

\* C3 amended: a source merged with the candidate list of its last committed
\* merge reports inserted = 0 and cancelled = 0; it reports updated = 0, every
\* candidate unchanged, when the candidates of the list that share a UID also
\* share their revision hash.
C3SecondRunUnchangedUnlessConflict ==
    \A i \in 1..Len(reports) :
        LET r == reports[i]
            l == fixture[r.source_key].cands
        IN SameInput(r.source_key) =>
              /\ r.inserted = 0
              /\ r.cancelled = 0
              /\ ConsistentDups(l) => (r.updated = 0 /\ r.unchanged = Len(l))

\* a second run over a list that yields one UID twice, all of it unchanged
C3Witness ==
    \E i \in 1..Len(reports) :
        /\ SameInput(reports[i].source_key)
        /\ Len(fixture[reports[i].source_key].cands) = 2
        /\ Cardinality(CandUids(fixture[reports[i].source_key].cands)) = 1
        /\ reports[i].unchanged = 2

\* C4 as stated: after a sync in which every merged source had the candidate
\* list of its last committed merge, the state file is the one the run found.
C4StateFileUntouched ==
    (/\ pc = "done" /\ ~opts.dry_run
     /\ \E s \in Sources : Reported(s)
     /\ \A s \in Sources : Reported(s) => SameInput(s))
    => disk = start_disk

\* C4 amended: after a sync that merged a source with the candidate list of
\* its last committed merge, the state file holds the same records of that
\* source as before; a record whose UID is not among the candidates is
\* identical, and a record whose candidates share one revision hash differs
\* in last_seen_at at most.
C4StateFileMovesLastSeenOnly ==
    (pc = "done" /\ ~opts.dry_run /\ start_disk.kind = "doc") =>
        \A s \in Sources :
            (Reported(s) /\ SameInput(s)) =>
                LET l == fixture[s].cands
                    old == start_disk.state.events
                    new == disk.state.events
                IN /\ {u \in DOMAIN new : new[u].source_key = s}
                         = {u \in DOMAIN old : old[u].source_key = s}
                   /\ \A u \in DOMAIN old :
                         old[u].source_key = s =>
                            IF u \notin CandUids(l) THEN new[u] = old[u]
                            ELSE Cardinality(HashesOf(l, u)) = 1 =>
                                    new[u] = [old[u] EXCEPT !.last_seen_at = new[u].last_seen_at]

\* a second run over the same candidates has moved last_seen_at in the state file
C4Witness ==
    /\ pc = "done" /\ ~opts.dry_run
    /\ Reported("a") /\ SameInput("a")
    /\ fixture["a"].cands # <<>>
    /\ disk.kind = "doc" /\ start_disk.kind = "doc"
    /\ disk # start_disk

\* C5: within a run the sequence of a UID in state never decreases and no
\* record is dropped; a new UID starts at 0; the sequence moves only by one
\* step, and it does so exactly when an update with a different revision hash
\* is applied or the sweep cancels the record; at u32::MAX it stays there.
\* Between runs the state is what the state file holds, and the state file
\* never holds a lower sequence than the one it held when the run started.
C5StepOk ==
    /\ pc = "merge" =>
          /\ \A u \in DOMAIN state.events :
                /\ u \in DOMAIN state'.events
                /\ LET old == state.events[u]
                       new == state'.events[u]
                       upd == /\ MergeStep
                              /\ stable_uid(normalize(Head(pending))) = u
                              /\ revision_hash(normalize(Head(pending))) # old.revision_hash
                       can == /\ SweepStep
                              /\ new.status = "cancelled"
                              /\ to_lowercase(old.status) # "cancelled"
                   IN /\ Leq32(old.sequence, new.sequence)
                      /\ new.sequence # old.sequence => new.sequence = Succ32(old.sequence)
                      /\ new.sequence # old.sequence => (upd \/ can)
                      /\ (upd \/ can) =>
                            new.sequence = IF old.sequence = U32Max THEN U32Max
                                           ELSE Succ32(old.sequence)
                      /\ old.sequence = U32Max => new.sequence = U32Max
          /\ \A u \in DOMAIN state'.events \ DOMAIN state.events :
                state'.events[u].sequence = Zero32
    /\ (pc \in Running /\ pc # "merge") => state' = state
    /\ (pc \in Stopped /\ pc' = "source") => state' = load_state(disk)

C5Persisted ==
    (disk.kind = "doc" /\ start_disk.kind = "doc") =>
        \A u \in DOMAIN start_disk.state.events :
            /\ u \in DOMAIN disk.state.events
            /\ Leq32(start_disk.state.events[u].sequence, disk.state.events[u].sequence)

C5SequenceMonotone == [][C5StepOk]_vars /\ []C5Persisted

\* a state in which the second update of one merge has left the sequence at
\* the top of u32
C5Witness ==
    /\ pc = "merge"
    /\ report.updated = 2
    /\ \E u \in DOMAIN state.events :
          /\ state.events[u].sequence = U32Max
          /\ state.events[u].last_modified = now
          /\ u \in DOMAIN start_disk.state.events
          /\ start_disk.state.events[u].sequence = U32(Limb - 1, Limb - 2)

\* C6: the sweep of a merge for source S on date today cancels a record
\* (status "cancelled", sequence one higher and never past u32::MAX,
\* last_modified = last_seen_at = now, its year bucket in changed_years, one
\* more in the cancelled counter) if and only if the record's source_key is S,
\* its UID is not among the candidates of the merge, its start date is today
\* or later or its time is Tbd, and its status is not "cancelled" ignoring
\* case; every other record is left as it was.
C6SweepExact ==
    [][SweepStep =>
         LET s == Head(queue)
             today == date_naive(now)
             ev == state.events
             Due(u) ==
                 /\ ev[u].source_key = s
                 /\ u \notin CandUids(fixture[s].cands)
                 /\ (ev[u].time.kind = "tbd"
                        \/ Unwrap(start_date(ev[u].time)) >= today)
                 /\ to_lowercase(ev[u].status) # "cancelled"
         IN /\ DOMAIN state'.events = DOMAIN ev
            /\ \A u \in DOMAIN ev :
                  IF Due(u)
                  THEN /\ state'.events[u] =
                             [ev[u] EXCEPT !.status = "cancelled",
                                           !.sequence = IF @ = U32Max THEN U32Max
                                                        ELSE Succ32(@),
                                           !.last_modified = now,
                                           !.last_seen_at = now]
                       /\ (IsSome(year_bucket(ev[u].time)) =>
                              Unwrap(year_bucket(ev[u].time)) \in changed_years')
                  ELSE state'.events[u] = ev[u]
            /\ report'.cancelled =
                  report.cancelled + Cardinality({u \in DOMAIN ev : Due(u)})
            /\ changed_years' =
                  changed_years \cup
                     {Unwrap(year_bucket(ev[u].time)) :
                        u \in {v \in DOMAIN ev : Due(v) /\ IsSome(year_bucket(ev[v].time))}}]_vars

\* a sweep has cancelled an undated record and has left a past record and an
\* already cancelled record of the same source as they were
C6Witness ==
    /\ pc = "rebuild"
    /\ report.cancelled = 1
    /\ \E u \in swept : state.events[u].time.kind = "tbd"
    /\ \E u \in DOMAIN state.events \ (swept \cup seen_uids) :
          /\ state.events[u].source_key = Head(queue)
          /\ state.events[u].status = "scheduled"
          /\ state.events[u].time.kind = "date"
          /\ state.events[u].time.start < date_naive(now)
    /\ \E u \in DOMAIN state.events \ (swept \cup seen_uids) :
          /\ state.events[u].source_key = Head(queue)
          /\ state.events[u].status = "cancelled"

\* C7: in a sync over several sources, a run in which the configuration, the
\* fetch or the parse of one source has failed still ends normally: the other
\* enabled sources have been merged and reported and the state has been saved.
C7SourceErrorIsolated ==
    \A s \in Sources :
        (/\ pc \in {"done", "aborted"}
         /\ SourceFailed(s)
         /\ ~IsSome(opts.source))
        => /\ pc = "done"
           /\ \A t \in Sources \ {s} :
                 (config[t] = "enabled" /\ ~SourceFailed(t)) => Reported(t)
           /\ ~opts.dry_run => disk = Doc(state)

\* C8: when a sync run has returned an error, the state file and every
\* calendar file are as they were when the run started.
C8FailedRunCommitsNothing ==
    pc = "aborted" => (disk = start_disk /\ files = start_files)

\* C9: a run killed before the state is saved leaves the state file as it
\* was, and the complete sync that repeats it with the same options and the
\* same candidates ends with the calendar files it would have produced had
\* the killed run never happened.
C9KilledRunLeavesNoTrace ==
    /\ (pc = "killed" /\ err = "killed") => disk = start_disk
    /\ (pc = "done" /\ ~opts.dry_run /\ rerun_of # NoFixture) => files = ideal

\* C10: the state file holds at every instant the complete document the run
\* found or the complete document of the state being saved.
C10StateFileNeverPartial ==
    \/ disk = start_disk
    \/ pc \in {"saving", "done"} /\ disk = Doc(state)

HoldsYear(st, s, y) ==
    \E u \in DOMAIN st.events :
        st.events[u].source_key = s /\ year_bucket(st.events[u].time) = Some(y)

\* C11: the stale-file cleanup that ends rebuild_source_calendars, whatever
\* year_filter and changed_years are, removes no calendar file
\* `<prefix>-<year>.ics` of a source while state holds a record of that source
\* with that year bucket.
C11CleanupKeepsHeldYears ==
    [][\A f \in FileNames :
          (f.stem = "prefixed" /\ files[f].kind # "absent" /\ files'[f].kind = "absent")
             => ~HoldsYear(state, f.dir, f.year)]_vars

\* C12 as stated: while a source is rebuilt after its merge, a calendar file
\* `<prefix>-<year>.ics` changes only if it is a file of that source for a year in the merge's
\* changed_years; no other step changes a calendar file.
C12OnlyChangedYearsTouched ==
    [][\A f \in FileNames :
          (f.stem = "prefixed" /\ files'[f] # files[f]) =>
             /\ pc = "rebuild"
             /\ f.dir = Head(queue)
             /\ f.year \in changed_years]_vars

\* C12 amended: while a source is rebuilt after its merge, a calendar file
\* `<prefix>-<year>.ics` changes only if it is a file of that source, and either its year is in the
\* merge's changed_years or the file is removed and state holds no record of
\* the source with that year bucket; no other step changes a calendar file.
C12OnlyChangedYearsWritten ==
    [][\A f \in FileNames :
          (f.stem = "prefixed" /\ files'[f] # files[f]) =>
             /\ pc = "rebuild"
             /\ f.dir = Head(queue)
             /\ \/ f.year \in changed_years
                \/ files'[f] = AbsentFile /\ ~HoldsYear(state, f.dir, f.year)]_vars

\* the sync of source b has written the file of a changed year and has
\* removed the file of a year that is not in changed_years
C12Witness ==
    /\ pc = "source" /\ Reported("b")
    /\ \E y \in Years \ changed_years :
          /\ start_files[FileName("b", y)].kind = "cal"
          /\ files[FileName("b", y)] = AbsentFile
    /\ \E y \in changed_years :
          /\ files[FileName("b", y)].kind = "cal"
          /\ files[FileName("b", y)] # start_files[FileName("b", y)]

\* C13: the revision_hash of every record in state is the revision hash of
\* the record's own revision-material fields.
C13StoredHashIsOwnHash ==
    \A u \in DOMAIN state.events :
        state.events[u].revision_hash = revision_hash(state.events[u])

\* the fields RevisionMaterial is built from, one by one
SameRevisedFields(p, c) ==
    /\ p.source_key = c.source_key
    /\ p.source_event_id = c.source_event_id
    /\ p.source_url = c.source_url
    /\ p.title = c.title
    /\ p.description = c.description
    /\ p.time = c.time
    /\ p.status = c.status
    /\ p.event_type = c.event_type
    /\ p.subtype = c.subtype
    /\ p.categories = c.categories
    /\ p.metadata = c.metadata

\* C14: when the candidates that yielded a UID in the source's last committed
\* merge and the candidate that yields it now agree in every field of the
\* revision material (they may differ in source_name, timezone, importance,
\* confidence, jurisdiction and country), the candidate is classified
\* unchanged: updated is not counted, the record keeps its sequence and
\* last_modified (only last_seen_at moves) and changed_years stays as it is.
C14ExcludedFieldsUnchanged ==
    [][MergeStep =>
         LET c == normalize(Head(pending))
             uid == stable_uid(c)
             prev == last_cands[Head(queue)]
             same == {i \in 1..Len(Unwrap(prev)) : stable_uid(Unwrap(prev)[i]) = uid}
         IN (/\ IsSome(prev)
             /\ uid \notin seen_uids
             /\ same # {}
             /\ \A i \in same : SameRevisedFields(normalize(Unwrap(prev)[i]), c))
            => /\ uid \in DOMAIN state.events
               /\ report'.unchanged = report.unchanged + 1
               /\ report'.updated = report.updated
               /\ state'.events[uid] = [state.events[uid] EXCEPT !.last_seen_at = now]
               /\ changed_years' = changed_years]_vars

\* source b yielded B1 in its last committed merge and yields it now with
\* other values in the excluded fields only; it has been counted unchanged
C14Witness ==
    /\ pc = "merge" /\ pending = <<>>
    /\ Head(queue) = "b"
    /\ last_cands["b"] = Some(<<B1>>)
    /\ fixture["b"].cands = <<B1x>>
    /\ report.unchanged = 1

\* C15 as stated: over a merge, last_modified of a record changes if and only
\* if its sequence changes.
C15ModifiedIffSequence ==
    start_disk.kind = "doc" =>
        \A u \in DOMAIN state.events \cap DOMAIN start_disk.state.events :
            (state.events[u].last_modified # start_disk.state.events[u].last_modified)
                <=> (state.events[u].sequence # start_disk.state.events[u].sequence)

\* C15 amended: over a merge, a record whose sequence changes has its
\* last_modified changed, and a record whose last_modified changes has its
\* sequence changed unless the sequence was u32::MAX already.
C15ModifiedWithSequence ==
    start_disk.kind = "doc" =>
        \A u \in DOMAIN state.events \cap DOMAIN start_disk.state.events :
            LET old == start_disk.state.events[u]
                new == state.events[u]
            IN /\ new.sequence # old.sequence => new.last_modified # old.last_modified
               /\ new.last_modified # old.last_modified =>
                     (new.sequence # old.sequence \/ old.sequence = U32Max)

\* a record stored at u32::MAX has been updated: last_modified has moved
C15Witness ==
    /\ start_disk.kind = "doc"
    /\ \E u \in DOMAIN state.events \cap DOMAIN start_disk.state.events :
          /\ start_disk.state.events[u].sequence = U32Max
          /\ state.events[u].sequence = U32Max
          /\ state.events[u].last_modified # start_disk.state.events[u].last_modified

\* C16: no step of a run changes the created_at of a record that state
\* holds, whether the record is updated, seen unchanged or cancelled, and the
\* state file never holds another created_at for a UID than it held when the
\* run started.
C16StepOk ==
    pc \in Running =>
        \A u \in DOMAIN state.events :
            /\ u \in DOMAIN state'.events
            /\ state'.events[u].created_at = state.events[u].created_at

C16Persisted ==
    (disk.kind = "doc" /\ start_disk.kind = "doc") =>
        \A u \in DOMAIN start_disk.state.events :
            /\ u \in DOMAIN disk.state.events
            /\ disk.state.events[u].created_at = start_disk.state.events[u].created_at

C16CreatedAtImmutable == [][C16StepOk]_vars /\ []C16Persisted

\* a record inserted by an earlier run has been updated or cancelled by this
\* run and still has the created_at of its insertion
C16Witness ==
    \E u \in DOMAIN state.events :
        /\ state.events[u].created_at = 1
        /\ state.events[u].last_modified = 2
        /\ state.events[u].sequence = U32(0, 1)

\* C17: every record of state is stored under its own uid, so state holds one
\* record per UID; merging a candidate whose UID is present leaves the set of
\* UIDs as it is, and no step of a merge removes a record.
C17StepOk ==
    pc = "merge" =>
        /\ DOMAIN state.events \subseteq DOMAIN state'.events
        /\ (MergeStep /\ stable_uid(normalize(Head(pending))) \in DOMAIN state.events)
              => DOMAIN state'.events = DOMAIN state.events
        /\ MergeStep =>
              DOMAIN state'.events =
                 DOMAIN state.events \cup {stable_uid(normalize(Head(pending)))}

C17Keyed ==
    /\ \A u \in DOMAIN state.events : state.events[u].uid = u
    /\ disk.kind = "doc" =>
          \A u \in DOMAIN disk.state.events : disk.state.events[u].uid = u

C17OneRecordPerUid == [][C17StepOk]_vars /\ []C17Keyed

\* a merge has inserted a record and has met a UID that was present; state
\* holds three records
C17Witness ==
    /\ pc = "merge"
    /\ report.inserted >= 1
    /\ report.updated + report.unchanged >= 1
    /\ Cardinality(DOMAIN state.events) >= 3

\* C19: whatever year_filter and changed_years are, a calendar file that
\* rebuild_source_calendars writes holds no VEVENT of a record whose status
\* is "cancelled" in any ASCII case, and no VEVENT with such a STATUS.
C19CancelledNeverWritten ==
    [][pc = "build" =>
         \A y \in to_write \ to_write' :
            LET f == files'[FileName(Head(queue), y)]
            IN f.kind = "cal" =>
                  /\ \A i \in 1..Len(f.events) :
                        ~eq_ignore_ascii_case(f.events[i].status, "cancelled")
                  /\ \A u \in DOMAIN state.events :
                        eq_ignore_ascii_case(state.events[u].status, "cancelled")
                           => ~Lists(f, u)]_vars

\* under a year filter and a changed_years set, the file of a year has been
\* written while state holds a record of that source and year whose status
\* is cancelled in another case than lower case
C19Witness ==
    /\ pc = "build"
    /\ IsSome(opts.year) /\ IsSome(changed_years)
    /\ \E y \in Years :
          /\ y \notin to_write
          /\ start_files[FileName(Head(queue), y)].kind = "absent"
          /\ files[FileName(Head(queue), y)].kind = "cal"
          /\ \E u \in DOMAIN state.events :
                /\ state.events[u].source_key = Head(queue)
                /\ year_bucket(state.events[u].time) = Some(y)
                /\ state.events[u].status \in {"Cancelled", "CANCELLED"}

\* the two candidates agree in what stable_uid is a function of: source_key
\* and the first available of source_event_id, source_url, (lower-cased
\* title, year bucket)
SameIdentityInputs(c1, c2) ==
    /\ c1.source_key = c2.source_key
    /\ IF IsSome(c1.source_event_id) \/ IsSome(c2.source_event_id)
       THEN c1.source_event_id = c2.source_event_id
       ELSE IF IsSome(c1.source_url) \/ IsSome(c2.source_url)
       THEN c1.source_url = c2.source_url
       ELSE /\ to_lowercase(c1.title) = to_lowercase(c2.title)
            /\ year_bucket(c1.time) = year_bucket(c2.time)

\* C18: two calls of stable_uid, at any instants and in any order, on
\* candidates that agree in source_key and in the first available of
\* source_event_id, source_url, (lower-cased title, year bucket) return the
\* same UID whatever the other fields are; with the same source_key and the
\* same source_event_id set, other source_url, title or time do not change
\* the UID; a repeated call returns what the first call returned.
C18Inv ==
    (Len(call.input) = 2 /\ IsSome(call.output[1]) /\ IsSome(call.output[2])) =>
        LET c1 == call.input[1]
            c2 == call.input[2]
        IN /\ SameIdentityInputs(c1, c2) => call.output[1] = call.output[2]
           /\ (/\ c1.source_key = c2.source_key
               /\ IsSome(c1.source_event_id)
               /\ c1.source_event_id = c2.source_event_id)
                 => call.output[1] = call.output[2]

C18Step ==
    \A i \in 1..Len(call.output) :
        (Len(call.input) = 2 /\ IsSome(call.output[i]))
           => call'.output[i] = call.output[i]

C18StableUidPure == [][C18Step]_vars /\ []C18Inv

\* two candidates with the same source_event_id and another source_url,
\* title, time and status have been given the same UID, at two instants
C18Witness ==
    /\ Len(call.input) = 2
    /\ IsSome(call.output[1]) /\ IsSome(call.output[2])
    /\ now = MaxNow
    /\ IsSome(call.input[1].source_event_id)
    /\ call.input[1].source_event_id = call.input[2].source_event_id
    /\ call.input[1].source_url # call.input[2].source_url
    /\ call.input[1].title # call.input[2].title
    /\ call.input[1].time # call.input[2].time
    /\ call.input[1].status # call.input[2].status
    /\ call.output[1] = call.output[2]

\* C20: every physical line that fold_line returns for a logical line, the
\* continuation lines counted with their leading space, is at most 75 bytes
\* long.
C20PhysicalLinesWithinLimit ==
    (Len(call.input) = 1 /\ call.at = "returned") =>
        \A i \in 1..Len(call.output) : len(call.output[i]) <= LIMIT

\* the year bucket of a time as a set: empty for a time without a year
BucketOf(t) ==
    IF t.kind = "tbd" THEN {}
    ELSE IF t.kind = "date" THEN {YearOfDay(t.start)}
    ELSE {t.year}

\* the run started on a state without events and the source's candidates
\* have pairwise distinct UIDs
ColdSync(s) ==
    /\ start_disk.state.events = EmptyEvents
    /\ fixture[s].kind = "ok"
    /\ Cardinality(CandUids(fixture[s].cands)) = Len(fixture[s].cands)

\* the step that pushes the report of the current source
ReportStep == pc \in {"merge", "rebuild"} /\ reports' = Append(reports, report')

\* the step that ends rebuild_source_calendars for the current source
RebuildEndStep == pc = "rebuild" /\ pc' = "source"

\* the candidate of a MergeStep is inserted as the claim says
C21InsertStep ==
    LET c == normalize(Head(pending))
        uid == stable_uid(c)
    IN (MergeStep /\ uid \notin DOMAIN state.events) =>
          /\ uid \in DOMAIN state'.events
          /\ state'.events[uid].uid = uid
          /\ state'.events[uid].title = c.title
          /\ state'.events[uid].sequence = Zero32
          /\ state'.events[uid].created_at = now
          /\ state'.events[uid].last_modified = now
          /\ state'.events[uid].last_seen_at = now
          /\ report' = [report EXCEPT !.inserted = @ + 1]
          /\ changed_years' = changed_years \cup BucketOf(c.time)

\* the report of a cold sync of a source
C21ColdReport ==
    (ReportStep /\ ColdSync(Head(queue))) =>
        /\ report'.inserted = Len(fixture[Head(queue)].cands)
        /\ report'.updated = 0
        /\ report'.cancelled = 0

\* C21 as stated: a candidate whose UID is absent is inserted with sequence 0
\* and created_at = last_modified = last_seen_at = now, inserted is
\* incremented and its year bucket is added to changed_years; a cold sync of
\* N candidates with distinct UIDs on empty state reports inserted = N,
\* updated = 0, cancelled = 0 and leaves a calendar file of the source for a
\* year exactly if the year is the bucket of one of the candidates.
C21ColdSyncFilePerBucket ==
    [][/\ C21InsertStep
       /\ C21ColdReport
       /\ (ReportStep /\ ColdSync(Head(queue))) =>
             \A y \in Years :
                files'[FileName(Head(queue), y)].kind = "cal"
                   <=> \E i \in 1..Len(fixture[Head(queue)].cands) :
                          y \in BucketOf(fixture[Head(queue)].cands[i].time)]_vars

\* C21 amended: the insertion and the report as stated; when the rebuild of a
\* cold sync that is not a dry run ends, the source has a calendar file that
\* lists the candidate for every year that is the bucket of a candidate that
\* is not cancelled, and no file for a year that is the bucket of no
\* candidate.
C21ColdSyncFilePerLiveBucket ==
    [][/\ C21InsertStep
       /\ C21ColdReport
       /\ (RebuildEndStep /\ ColdSync(Head(queue))) =>
             LET s == Head(queue)
                 l == fixture[s].cands
             IN \A y \in Years :
                   /\ \A i \in 1..Len(l) :
                         (y \in BucketOf(l[i].time)
                            /\ ~eq_ignore_ascii_case(l[i].status, "cancelled"))
                         => /\ files'[FileName(s, y)].kind = "cal"
                            /\ Lists(files'[FileName(s, y)], stable_uid(normalize(l[i])))
                   /\ (\A i \in 1..Len(l) : y \notin BucketOf(l[i].time))
                         => files'[FileName(s, y)].kind = "absent"]_vars

\* a cold sync of source a has inserted two candidates with distinct UIDs and
\* has left the file of their year
C21Witness ==
    /\ pc = "source" /\ Len(reports) = 1
    /\ ColdSync("a")
    /\ Len(fixture["a"].cands) = 2
    /\ reports[1].source_key = "a" /\ reports[1].inserted = 2
    /\ files[FileName("a", BaseYear)].kind = "cal"
    /\ Len(files[FileName("a", BaseYear)].events) = 2

\* the candidate of a MergeStep updates the record as the claim says, the
\* sequence going from n to inc(n)
C22UpdateStep(inc(_)) ==
    LET c == normalize(Head(pending))
        uid == stable_uid(c)
    IN (/\ MergeStep
        /\ uid \in DOMAIN state.events
        /\ state.events[uid].revision_hash # Sha256(RevisionMaterial(c))) =>
          /\ DOMAIN state'.events = DOMAIN state.events
          /\ state'.events[uid].uid = uid
          /\ SameRevisedFields(state'.events[uid], c)
          /\ state'.events[uid].source_name = c.source_name
          /\ state'.events[uid].timezone = c.timezone
          /\ state'.events[uid].importance = c.importance
          /\ state'.events[uid].sequence = inc(state.events[uid].sequence)
          /\ state'.events[uid].last_modified = now
          /\ state'.events[uid].last_seen_at = now
          /\ report' = [report EXCEPT !.updated = @ + 1]
          /\ changed_years' = changed_years \cup BucketOf(c.time)

PlusOne(n) == Succ32(n)
PlusOneToMax(n) == IF n = U32Max THEN U32Max ELSE Succ32(n)

\* when the rebuild ends, every record of the source that is not cancelled
\* and whose year is in changed_years is in the file of its year with its
\* SEQUENCE and its summary
C22FilesShowRecords ==
    RebuildEndStep =>
        \A u \in DOMAIN state.events :
            LET r == state.events[u]
            IN (/\ r.source_key = Head(queue)
                /\ ~eq_ignore_ascii_case(r.status, "cancelled")
                /\ BucketOf(r.time) \cap changed_years # {})
               => \A y \in BucketOf(r.time) :
                     LET f == files'[FileName(Head(queue), y)]
                     IN /\ f.kind = "cal"
                        /\ \E i \in 1..Len(f.events) :
                              /\ f.events[i].uid = u
                              /\ f.events[i].sequence = r.sequence
                              /\ f.events[i].summary = r.title

\* C22 as stated: a candidate whose UID is present with another stored
\* revision hash replaces the record's content and keeps the UID, the
\* sequence is incremented by exactly 1, last_modified = last_seen_at = now,
\* updated is incremented and the candidate's year bucket is added to
\* changed_years; after the rebuild the file of the year shows the record's
\* SEQUENCE and summary.
C22UpdateAddsOne == [][C22UpdateStep(PlusOne) /\ C22FilesShowRecords]_vars

\* C22 amended: as stated, but the sequence is incremented by 1 unless it is
\* u32::MAX, where it stays; and the file of the year shows the SEQUENCE and
\* the summary of the record when the rebuild of a sync that is not a dry run
\* has ended and the record is not cancelled.
C22UpdateAddsOneToMax == [][C22UpdateStep(PlusOneToMax) /\ C22FilesShowRecords]_vars

\* an update has moved a record to sequence 1 and the file of its year shows
\* SEQUENCE 1 and the new summary
C22Witness ==
    /\ pc = "source" /\ ~opts.dry_run
    /\ \E u \in DOMAIN state.events :
          /\ state.events[u].sequence = U32(0, 1)
          /\ state.events[u].last_modified = now
          /\ u \in DOMAIN start_disk.state.events
          /\ start_disk.state.events[u].title # state.events[u].title
          /\ \E i \in 1..Len(files[FileName("a", BaseYear)].events) :
                LET v == files[FileName("a", BaseYear)].events[i]
                IN v.uid = u /\ v.sequence = U32(0, 1)
                   /\ v.summary = state.events[u].title

\* C23: every candidate of a merge leaves the record of its UID with
\* last_seen_at = now of that merge, and the sweep keeps it; when the
\* candidate's revision hash equals the stored one, last_seen_at is the only
\* field of the record that changes, only the unchanged counter is
\* incremented and changed_years stays as it is.
C23StepOk ==
    /\ MergeStep =>
          LET c == normalize(Head(pending))
              uid == stable_uid(c)
          IN /\ uid \in DOMAIN state'.events
             /\ state'.events[uid].last_seen_at = now
             /\ (/\ uid \in DOMAIN state.events
                 /\ state.events[uid].revision_hash = Sha256(RevisionMaterial(c)))
                => /\ state'.events[uid] = [state.events[uid] EXCEPT !.last_seen_at = now]
                   /\ report' = [report EXCEPT !.unchanged = @ + 1]
                   /\ changed_years' = changed_years
    /\ SweepStep => \A u \in seen_uids : state'.events[u] = state.events[u]

C23Seen ==
    pc \in {"merge", "rebuild"} =>
        \A u \in seen_uids : state.events[u].last_seen_at = now

C23LastSeenOnEverySighting == [][C23StepOk]_vars /\ []C23Seen

\* a record modified by an earlier run has been seen unchanged: last_seen_at
\* is this merge's now, last_modified is older
C23Witness ==
    /\ pc = "rebuild"
    /\ report.unchanged >= 1
    /\ \E u \in seen_uids :
          /\ state.events[u].last_seen_at = now
          /\ state.events[u].last_modified < now
          /\ state.events[u].last_modified > 0

\* the record holds the value of the candidate in every field of the
\* candidate
CarriesContent(r, c) == \A f \in DOMAIN c : r[f] = c[f]

C29StepOk ==
    /\ MergeStep =>
          changed_years' =
             changed_years \cup
                (IF report'.inserted > report.inserted \/ report'.updated > report.updated
                 THEN BucketOf(normalize(Head(pending)).time)
                 ELSE {})
    /\ SweepStep =>
          /\ changed_years' =
                changed_years \cup
                   UNION {BucketOf(state.events[u].time) :
                             u \in {v \in DOMAIN state.events :
                                       state'.events[v] # state.events[v]}}
          /\ to_write' \subseteq changed_years'
    /\ \A f \in FileNames :
          (f.stem = "prefixed" /\ files'[f] # files[f] /\ files'[f].kind # "absent")
             => f.year \in changed_years

C29ChangedYearsExact == [][C29StepOk]_vars

\* a merge has inserted a candidate without a date: changed_years is empty
\* and the rebuild has no file to write
C29Witness ==
    /\ pc = "rebuild"
    /\ report.inserted = 1 /\ report.records_parsed = 1
    /\ fixture[Head(queue)].cands[1].time.kind = "tbd"
    /\ changed_years = {}
    /\ to_write = {}

\* the sources a run has to process: the enabled ones the filter retains, in
\* ascending key order
Due ==
    SelectSeq(SourceOrder,
              LAMBDA k : /\ config[k] = "enabled"
                         /\ (~IsSome(opts.source) \/ k = Unwrap(opts.source)))

Ascending(keys) ==
    \A i, j \in 1..Len(keys) : i < j => KeyRank(keys[i]) < KeyRank(keys[j])

\* the sources still to come are in ascending key order, after every source
\* already reported; a run that ends has processed the due sources in order
C26InOrder ==
    pc \in Running \cup {"done"} =>
        /\ Ascending([i \in 1..Len(reports) |-> reports[i].source_key] \o queue)
        /\ pc = "done" => [i \in 1..Len(reports) |-> reports[i].source_key] = Due

\* one source at a time, its merge before its rebuild: a merge step touches
\* neither a calendar file nor the state file and stays with its source; the
\* rebuild begins at the sweep, when no candidate is pending and every
\* candidate has been classified; a rebuild step leaves state as it is
C26MergeThenRebuild ==
    /\ pc = "merge" =>
          /\ files' = files /\ disk' = disk
          /\ pc' \in {"merge", "rebuild"} => queue' = queue
    /\ (pc # "rebuild" /\ pc' = "rebuild") =>
          /\ pc = "merge" /\ pending = <<>>
          /\ report.inserted + report.updated + report.unchanged
                = Len(fixture[Head(queue)].cands)
          /\ sweep_targets(state', Head(queue), seen_uids, date_naive(now)) = {}
    /\ pc = "rebuild" =>
          /\ state' = state /\ disk' = disk /\ pending = <<>>
          /\ pc' = "rebuild" => queue' = queue
          /\ pc' = "source" => queue' = Tail(queue)

\* the state file is written only after the last source
C26SaveAfterLast ==
    disk' # disk => /\ pc \in {"source", "saving"}
                    /\ queue = <<>>
                    /\ reports' = reports

\* C26 as stated: the enabled sources are processed one at a time in
\* ascending key order, the merge of a source (upserts and sweep) completes
\* before its calendars are rebuilt, and every sync cycle that ends has
\* persisted the state once, after the last source.
C26PersistedOnce ==
    /\ [][/\ C26MergeThenRebuild
          /\ C26SaveAfterLast
          /\ (pc # "done" /\ pc' = "done") =>
                (pc = "saving" /\ disk' = Doc(state))]_vars
    /\ []C26InOrder

\* C26 amended: as stated, but the state is persisted once, after the last
\* source, by a sync cycle that ends and is not a dry run; a dry run leaves
\* the state file as it is.
C26PersistedOnceUnlessDryRun ==
    /\ [][/\ C26MergeThenRebuild
          /\ C26SaveAfterLast
          /\ (pc # "done" /\ pc' = "done") =>
                IF opts.dry_run
                THEN disk' = start_disk
                ELSE pc = "saving" /\ disk' = Doc(state)]_vars
    /\ []C26InOrder

\* a sync of both sources has ended: a was reported before b and the state
\* file holds the state after b's merge
C26Witness ==
    /\ pc = "done" /\ ~opts.dry_run
    /\ Len(reports) = 2
    /\ reports[1].source_key = "a" /\ reports[2].source_key = "b"
    /\ reports[1].inserted = 1 /\ reports[2].inserted = 1
    /\ disk = Doc(state)
    /\ disk # start_disk

\* state holds a record of source s whose time falls in year y
HasRecordOfYear(st, s, y) ==
    \E u \in DOMAIN st.events :
        st.events[u].source_key = s /\ y \in BucketOf(st.events[u].time)

\* the end of a source's rebuild: no file named after a bare year and no
\* prefixed file of a year without record is left in the source's directory,
\* and the step leaves the prefixed files of years with a record as they are
C24CleanupStep ==
    RebuildEndStep =>
        \A f \in FileNames :
            f.dir = Head(queue) =>
                /\ f.stem = "legacy" => files'[f].kind = "absent"
                /\ (f.stem = "prefixed" /\ ~HasRecordOfYear(state, f.dir, f.year))
                      => files'[f].kind = "absent"
                /\ (f.stem = "prefixed" /\ HasRecordOfYear(state, f.dir, f.year))
                      => files'[f] = files[f]

\* in a sync that is not a dry run, the directory of every source reported
\* so far is clean, and a file of a year with a record that was there when
\* the sync started is still there
C24Clean ==
    (pc \in {"source", "merge", "rebuild", "saving", "done"} /\ ~opts.dry_run) =>
        \A i \in 1..Len(reports) : \A f \in FileNames :
            f.dir = reports[i].source_key =>
                /\ f.stem = "legacy" => files[f].kind = "absent"
                /\ (f.stem = "prefixed" /\ ~HasRecordOfYear(state, f.dir, f.year))
                      => files[f].kind = "absent"
                /\ (/\ f.stem = "prefixed"
                    /\ HasRecordOfYear(state, f.dir, f.year)
                    /\ start_files[f].kind = "cal")
                      => files[f].kind = "cal"

DayOf(t) ==
    IF t.kind = "date" THEN {t.start}
    ELSE IF t.kind = "year" THEN {FirstDayOfYear(t.year)}
    ELSE IF t.kind = "month" /\ t.start >= 1 /\ t.start <= DaysPerYear
    THEN {FirstDayOfYear(t.year) + t.start - 1}
    ELSE {}

\* VEVENT v comes before VEVENT w in ascending (start_date, uid) order, a
\* VEVENT without start date after every dated one
Before(v, w) ==
    LET dv == DayOf(v.time)
        dw == DayOf(w.time)
    IN IF dv # {} /\ dw # {}
       THEN \E x \in dv, y \in dw :
               x < y \/ (x = y /\ UidRank(v.uid) < UidRank(w.uid))
       ELSE IF dv # {} THEN TRUE
       ELSE IF dw # {} THEN FALSE
       ELSE UidRank(v.uid) < UidRank(w.uid)

\* the records of source s in state that are not cancelled and fall in year y
LiveOfYear(st, s, y) ==
    {u \in DOMAIN st.events :
        /\ st.events[u].source_key = s
        /\ ~eq_ignore_ascii_case(st.events[u].status, "cancelled")
        /\ y \in BucketOf(st.events[u].time)}

\* C27: a calendar that a rebuild writes lists the records of its source and
\* year that are not cancelled, each once, in ascending (start_date, uid)
\* order with the records without start date last; the order is a strict
\* total order of the records, so every run over the same records writes the
\* VEVENTs in the same order.
C27SortedByDateThenUid ==
    [][\A y \in to_write \ to_write' :
          LET f == files'[FileName(Head(queue), y)]
          IN f.kind = "cal" =>
                /\ \A i, j \in 1..Len(f.events) :
                      i < j => Before(f.events[i], f.events[j])
                /\ {f.events[i].uid : i \in 1..Len(f.events)}
                      = LiveOfYear(state, Head(queue), y)
                /\ Len(f.events) = Cardinality(LiveOfYear(state, Head(queue), y))]_vars

\* a build has written a calendar in which a record without start date
\* follows a dated record although its UID is the lower one
C27Witness ==
    /\ pc \in {"build", "done"}
    /\ \E f \in FileNames :
          /\ start_files[f].kind = "absent" /\ files[f].kind = "cal"
          /\ Len(files[f].events) = 2
          /\ LET v == files[f].events[1]
                 w == files[f].events[2]
             IN /\ DayOf(v.time) # {} /\ DayOf(w.time) = {}
                /\ w.time.kind = "month"
                /\ UidRank(w.uid) < UidRank(v.uid)

\* the state file exists and cannot be read or parsed
Broken(d) == d.kind \in {"torn", "unreadable", "unreachable"}

\* C25: load_state returns the default empty state exactly when the state
\* file is absent and the stored state when the file can be read and parsed;
\* when the file exists but cannot be read or parsed, the run aborts with the
\* default state in memory and never writes a calendar file or the state
\* file.
C25NoSilentEmptyState ==
    /\ pc \in {"build", "done"} =>
          /\ start_disk.kind \in {"absent", "doc"}
          /\ state = (IF start_disk.kind = "absent" THEN DefaultState
                      ELSE start_disk.state)
    /\ (Broken(start_disk) /\ pc # "idle") =>
          /\ pc = "aborted"
          /\ files = start_files
          /\ disk = start_disk

\* C30: a step of the merge of a source (an upsert or the sweep) leaves every
\* record of another source in state, field for field as it was.
C30OtherSourcesUntouched ==
    [][pc = "merge" =>
          \A u \in DOMAIN state.events :
              state.events[u].source_key # Head(queue) =>
                  /\ u \in DOMAIN state'.events
                  /\ state'.events[u] = state.events[u]]_vars

\* the elements of a list
Elements(l) == {l[i] : i \in 1..Len(l)}

\* record r holds what candidate c holds, but for the order and the
\* duplicates of the categories
SameButCategories(r, c) ==
    /\ \A f \in DOMAIN c \ {"categories"} : r[f] = c[f]
    /\ Elements(r.categories) = Elements(c.categories)

\* every record of state has its categories in ascending order, none twice
C31Stored ==
    \A u \in DOMAIN state.events :
        LET cats == state.events[u].categories
        IN \A i, j \in 1..Len(cats) : i < j => CatRank(cats[i]) < CatRank(cats[j])

\* a candidate is merged whose record in state is as the merge of an earlier
\* run stored it for a candidate with the same categories in any order and
\* number: the step counts it unchanged and moves last_seen_at only
C31Step ==
    MergeStep =>
        LET c == Head(pending)
            uid == stable_uid(c)
        IN (/\ uid \in DOMAIN state.events
            /\ SameButCategories(state.events[uid], c)
            /\ state.events[uid].revision_hash =
                   Sha256(RevisionMaterial(state.events[uid])))
           => /\ report'.unchanged = report.unchanged + 1
              /\ report'.updated = report.updated
              /\ report'.inserted = report.inserted
              /\ state'.events[uid] = [state.events[uid] EXCEPT !.last_seen_at = now]
              /\ changed_years' = changed_years

\* C31: the categories of a candidate are sorted and de-duplicated before
\* hashing and storage: every record of state has its categories in ascending
\* order without duplicates, and a candidate that differs from the candidate
\* an earlier run stored only in the order or the duplication of its
\* categories is classified unchanged.
C31SortedAndOrderBlind == [][C31Step]_vars /\ []C31Stored

\* state held the record of A1; the run has yielded A1 with its categories
\* in another order and one of them twice, and has counted it unchanged
C31Witness ==
    /\ pc = "merge" /\ pending = <<>>
    /\ fixture["a"].cands = <<A1p>>
    /\ report.unchanged = 1 /\ report.updated = 0
    /\ stable_uid(A1) \in DOMAIN start_disk.state.events
    /\ state.events[stable_uid(A1)].categories = <<"econ", "policy">>

\* vocabulary of the properties of a fetch
Returned == call.at = "returned"
Result == call.output[1]
\* the requests sent for the URL of page index k
RequestsOf(k) == {i \in 1..Len(call.requests) : call.requests[i].index = k}
\* the call of fetch_with_retries for page index k has returned
Left(k) == Returned \/ call.index > k
\* the call of fetch_with_retries for page index k has returned an error
LeftWithError(k) ==
    Returned /\ call.index = k /\ Result.kind = "err" /\ Result.why # "url"

\* C32: called with a method it supports, fetch_with_retries sends at most
\* max(1, retry_attempts) requests for one URL; a 2xx response is the last
\* request for its URL and the call returns its body; the call returns an
\* error exactly when every attempt got a status other than 2xx or no
\* response; the backoff is slept only after such an attempt that is not the
\* last.
C32RetriesUntilFirstSuccess ==
    (/\ Len(call.input) = 1
     /\ to_ascii_uppercase_method(call.input[1].method) \in {"GET", "POST"}) =>
        LET attempts == max(call.input[1].retry_attempts, 1)
        IN /\ \A i \in 1..Len(call.requests) :
                 LET r == call.requests[i]
                 IN /\ r.attempt = Cardinality({j \in RequestsOf(r.index) : j <= i})
                    /\ r.attempt <= attempts
                    /\ is_success(r.outcome) =>
                          /\ \A j \in RequestsOf(r.index) : j <= i
                          /\ ~LeftWithError(r.index)
                    /\ r.slept => (~is_success(r.outcome) /\ r.attempt < attempts)
           /\ \A k \in 0..call.index :
                 Left(k) =>
                    (LeftWithError(k) <=>
                        \A a \in 1..attempts :
                            \E i \in RequestsOf(k) :
                                /\ call.requests[i].attempt = a
                                /\ ~is_success(call.requests[i].outcome))

\* C32 amended: called with a method it does not support, fetch_with_retries
\* sends no request and returns an error. Otherwise it sends at most
\* max(1, retry_attempts) requests for one URL; a 2xx response is the last
\* request for its URL, and the call returns its body when the body is read
\* and an error, without another attempt, when reading the body fails; the
\* call returns an error exactly when the body of a 2xx response could not be
\* read or every one of the max(1, retry_attempts) attempts got a status
\* other than 2xx or no response; the backoff is slept only after such an
\* attempt that is not the last.
C32RetriesUntilFirstResponse ==
    Len(call.input) = 1 =>
        LET cfg == call.input[1]
            attempts == max(cfg.retry_attempts, 1)
        IN IF to_ascii_uppercase_method(cfg.method) \notin {"GET", "POST"}
           THEN /\ call.requests = <<>>
                /\ Returned => Result.docs = <<>>
                /\ call.at # "attempt" => call.attempt = 0 \/ Result.kind = "err"
           ELSE
           /\ \A i \in 1..Len(call.requests) :
                 LET r == call.requests[i]
                 IN /\ r.attempt = Cardinality({j \in RequestsOf(r.index) : j <= i})
                    /\ r.attempt <= attempts
                    /\ is_success(r.outcome) =>
                          /\ \A j \in RequestsOf(r.index) : j <= i
                          /\ LeftWithError(r.index) <=> r.outcome = "ok_body_error"
                    /\ r.slept => (~is_success(r.outcome) /\ r.attempt < attempts)
           /\ \A k \in 0..call.index :
                 Left(k) =>
                    (LeftWithError(k) <=>
                        \/ \E i \in RequestsOf(k) :
                              call.requests[i].outcome = "ok_body_error"
                        \/ \A a \in 1..attempts :
                              \E i \in RequestsOf(k) :
                                  /\ call.requests[i].attempt = a
                                  /\ ~is_success(call.requests[i].outcome))

\* a call with retry_attempts = 2 has got no response at the first attempt,
\* has slept, has got a 2xx response at the second and has returned its body
C32Witness ==
    /\ Len(call.input) = 1 /\ ~call.input[1].enabled
    /\ call.input[1].retry_attempts = 2
    /\ Len(call.requests) = 2
    /\ call.requests[1].outcome = "error" /\ call.requests[1].slept
    /\ call.requests[2].outcome = "ok_body" /\ ~call.requests[2].slept
    /\ Returned /\ Result.kind = "ok"
    /\ Len(Result.docs) = 1 /\ Result.docs[1].body = "bytes"

\* the value of the page parameter of a URL that has it once
PageOf(url, param) ==
    {url.query[i][2] : i \in Hits(url.query, param)}

\* C33: with pagination enabled, under either strategy, the requests ask for
\* the pages start_page, start_page + 1, ... in ascending order through the
\* page query parameter, for less than max_pages page indices; a request
\* follows another for the same page after a failure, for the next page after
\* a body; an empty body under stop_when_no_results ends the fetch with the
\* documents before it, and a page whose fetch fails ends it with an error.
C33PagesAscendUntilEmpty ==
    (Len(call.input) = 1 /\ call.input[1].enabled) =>
        LET cfg == call.input[1]
            reqs == call.requests
            attempts == max(cfg.retry_attempts, 1)
        IN /\ \A i \in 1..Len(reqs) :
                 LET r == reqs[i]
                     sum == overflowing_add(cfg.start_page, Usize(r.index))
                     stopped == is_empty(r.outcome) /\ cfg.stop_when_no_results
                     failed == \/ ~is_success(r.outcome) /\ r.attempt = attempts
                               \/ r.outcome = "ok_body_error"
                 IN /\ LessUsize(Usize(r.index), cfg.max_pages)
                    /\ ~sum.overflow
                    /\ PageOf(r.url, cfg.page_param) = {sum.value}
                    /\ Cardinality(Hits(r.url.query, cfg.page_param)) = 1
                    /\ i = 1 => r.index = 0
                    /\ i > 1 =>
                          IF is_success(reqs[i - 1].outcome)
                          THEN r.index = reqs[i - 1].index + 1
                          ELSE r.index = reqs[i - 1].index
                    /\ (stopped \/ failed) => (i = Len(reqs) /\ Returned)
                    /\ stopped =>
                          /\ Result.kind = "ok"
                          /\ Len(Result.docs) = r.index
                    /\ failed => Result.kind = "err"
           /\ (Returned /\ Result.kind = "ok") =>
                 /\ \A d \in 1..Len(Result.docs) :
                       /\ Result.docs[d].page_index = d - 1
                       /\ \E i \in RequestsOf(d - 1) :
                             /\ reqs[i].outcome \in {"ok_body", "ok_empty"}
                             /\ Result.docs[d].source_url = reqs[i].url
                 /\ LessUsize(Usize(Len(Result.docs)), cfg.max_pages)
                       \/ Usize(Len(Result.docs)) = cfg.max_pages

\* a fetch under strategy next_link has asked for page 0 twice, the first
\* time in vain, then for page 1, then for page 2, whose body was empty, and
\* has returned the documents of the pages 0 and 1
C33Witness ==
    /\ Len(call.input) = 1 /\ call.input[1].enabled
    /\ call.input[1].strategy = "next_link"
    /\ call.input[1].stop_when_no_results
    /\ call.input[1].max_pages = Usize(3)
    /\ Len(call.input[1].base_url.query) = 2
    /\ Returned /\ Result.kind = "ok"
    /\ Len(Result.docs) = 2
    /\ Len(call.requests) = 4
    /\ call.requests[1].outcome = "status"
    /\ call.requests[4].outcome = "ok_empty"

\* the first day of the bucket of a time and of the bucket after it
FirstDay(t) ==
    CASE t.kind = "month" -> NaiveDate(t.year, t.month, 1)
      [] t.kind = "quarter" -> NaiveDate(t.year, 3 * t.quarter - 2, 1)
      [] t.kind = "year" -> NaiveDate(t.year, 1, 1)
\* the time's bucket is the last of its year
LastOfYear(t) ==
    \/ t.kind = "month" /\ t.month = 12
    \/ t.kind = "quarter" /\ t.quarter = 4
    \/ t.kind = "year"
NextFirstDay(t) ==
    IF LastOfYear(t) THEN NaiveDate(t.year + 1, 1, 1)
    ELSE IF t.kind = "month" THEN NaiveDate(t.year, t.month + 1, 1)
    ELSE NaiveDate(t.year, 3 * t.quarter + 1, 1)

\* what the calls made so far have given is the first day of the bucket, the
\* first day of the next bucket, and the two as DTSTART and DTEND
BucketDays(t) ==
    /\ call.start # <<>> => call.start[1] = Some(FirstDay(t))
    /\ call.end # <<>> => call.end[1] = Returns(Some(NextFirstDay(t)))
    /\ call.lines # <<>> =>
          call.lines[1] = [panic |-> FALSE,
                           dtstart |-> Some(format_date(FirstDay(t))),
                           dtend |-> Some(format_date(NextFirstDay(t)))]

C35BackreferenceSeesEarlierFields ==
    (Len(call.input) = 1 /\ "evaluated" \in DOMAIN call) =>
        /\ \A i, j \in 1..Len(call.evaluated) :
              i < j => FieldRank(call.evaluated[i]) < FieldRank(call.evaluated[j])
        /\ \A i \in 1..Len(call.yields) :
              LET y == call.yields[i]
              IN /\ IsSome(y.value) =>
                       /\ FieldRank(y.name) < FieldRank(y.target)
                       /\ call.mapped[y.name] = y.value
                 /\ FieldRank(y.name) >= FieldRank(y.target) => y.value = None
                 /\ (FieldRank(y.name) < FieldRank(y.target) /\ IsSome(call.mapped[y.name]))
                       => y.value = call.mapped[y.name]

\* a record has been mapped whose field Date refers to title and got
\* nothing, whose field title got a value, and whose field url refers to
\* title and got that value
C35Witness ==
    /\ Len(call.input) = 1 /\ "evaluated" \in DOMAIN call
    /\ call.remaining = <<>>
    /\ call.evaluated = <<"Date", "title", "url">>
    /\ call.yields = <<[target |-> "Date", name |-> "title", value |-> None],
                       [target |-> "url", name |-> "title", value |-> Some("v")]>>
    /\ call.mapped["title"] = Some("v")
    /\ call.mapped["Date"] = None

\* the step of the order of C36 that a trimmed start string matches first
FourDigitYear(s) == Len(s) = 4 /\ \A i \in 1..4 : is_ascii_digit(s[i])
FirstStep(s, date_cfg) ==
    IF IsSome(parse_from_rfc3339(s)) THEN "DateTime"
    ELSE IF \E i \in 1..Len(date_cfg.formats) :
               IsSome(NaiveDateTime_parse_from_str(s, date_cfg.formats[i]))
    THEN "DateTime"
    ELSE IF \E i \in 1..Len(date_cfg.formats) :
               IsSome(NaiveDate_parse_from_str(s, date_cfg.formats[i]))
    THEN "Date"
    ELSE IF IsSome(parse_month_year(s)) /\ date_cfg.allow_month_only THEN "Month"
    ELSE IF IsSome(parse_quarter_year(s)) THEN "Quarter"
    ELSE IF FourDigitYear(s) /\ date_cfg.allow_year_only THEN "Year"
    ELSE "Tbd"

\* C36: parse_event_time gives the variant of the first step that matches
\* the start string, in the order RFC 3339, datetime of a configured format,
\* date of a configured format, month and year (when allow_month_only),
\* quarter and year, four-digit year (when allow_year_only), and Tbd with the
\* string as its note otherwise; without allow_month_only it never gives
\* Month; for a string that is not a four-digit year it never gives Year.
C36FirstMatchingStep ==
    (Len(call.input) = 2 /\ "time" \in DOMAIN call /\ IsSome(call.time)) =>
        LET s == trim_chars(call.input[1])
            date_cfg == call.input[2]
            t == Unwrap(call.time)
        IN /\ t.kind = FirstStep(s, date_cfg)
           /\ (t.kind = "Tbd" /\ s # <<>>) => t.note = Some(s)
           /\ ~date_cfg.allow_month_only => t.kind # "Month"
           /\ ~FourDigitYear(s) => t.kind # "Year"

\* the calendar files of a source that list a UID
FilesListing(s, u) ==
    {f \in FileNames : f.dir = s /\ f.stem = "prefixed" /\ Lists(files[f], u)}

\* C37: after a sync in which an update has moved a record from the year Y1
\* to the year Y2 while other records of the source that are not cancelled
\* remain in Y1, the file of Y1 does not list the record; every UID is
\* listed in at most one calendar file of its source.
C37MovedRecordLeavesOldYear ==
    (pc = "done" /\ ~opts.dry_run) =>
        \A u \in DOMAIN state.events \cap DOMAIN start_disk.state.events :
            LET r == state.events[u]
                y1 == year_bucket(start_disk.state.events[u].time)
            IN (/\ IsSome(y1) /\ IsSome(year_bucket(r.time))
                /\ y1 # year_bucket(r.time)
                /\ \E v \in DOMAIN state.events \ {u} :
                      /\ state.events[v].source_key = r.source_key
                      /\ ~is_cancelled(state.events[v])
                      /\ year_bucket(state.events[v].time) = y1)
                  => /\ ~Lists(files[FileName(r.source_key, Unwrap(y1))], u)
                     /\ Cardinality(FilesListing(r.source_key, u)) <= 1

\* merge_source_events as a function of the state, the source, the
\* candidates and the instant read from the clock: the candidate loop ...
RECURSIVE merge_candidates(_, _, _)
merge_candidates(m, candidates, instant) ==
    IF candidates = <<>> THEN m
    ELSE LET candidate == normalize(Head(candidates))
             uid == stable_uid(candidate)
             rh == revision_hash(candidate)
             yb == year_bucket(candidate.time)
             ev == m.state.events
             years == IF IsSome(yb) THEN m.changed_years \cup {Unwrap(yb)}
                      ELSE m.changed_years
             seen == m.seen_uids \cup {uid}
         IN merge_candidates(
                IF uid \notin DOMAIN ev
                THEN [state |-> [m.state EXCEPT !.events =
                                    Put(ev, uid, candidate_to_record(candidate, uid, rh,
                                                     Zero32, instant, instant))],
                      seen_uids |-> seen, changed_years |-> years,
                      report |-> [m.report EXCEPT !.inserted = @ + 1]]
                ELSE IF ev[uid].revision_hash # rh
                THEN [state |-> [m.state EXCEPT !.events[uid] =
                                    candidate_to_record(candidate, uid, rh,
                                        saturating_add(ev[uid].sequence),
                                        ev[uid].created_at, instant)],
                      seen_uids |-> seen, changed_years |-> years,
                      report |-> [m.report EXCEPT !.updated = @ + 1]]
                ELSE [state |-> [m.state EXCEPT !.events[uid].last_seen_at = instant],
                      seen_uids |-> seen, changed_years |-> m.changed_years,
                      report |-> [m.report EXCEPT !.unchanged = @ + 1]],
                Tail(candidates), instant)

\* ... and the sweep
merge_source_events(st, s, candidates, instant) ==
    LET m == merge_candidates(
                 [state |-> st, seen_uids |-> {}, changed_years |-> {},
                  report |-> [NoReport EXCEPT !.source_key = s,
                                              !.records_parsed = Len(candidates)]],
                 candidates, instant)
        ev == m.state.events
        T == {u \in DOMAIN ev :
                /\ ev[u].source_key = s
                /\ u \notin m.seen_uids
                /\ is_future_relative_to(ev[u].time, date_naive(instant))
                /\ to_lowercase(ev[u].status) # "cancelled"}
    IN [state |-> [m.state EXCEPT !.events =
                      [u \in DOMAIN ev |-> IF u \in T THEN cancel(ev[u], instant) ELSE ev[u]]],
        report |-> [m.report EXCEPT !.cancelled = @ + Cardinality(T)]]

\* the run has pushed the report of source a
Merged == pc \in {"source", "saving", "done"} /\ Len(reports) = 1 /\ fixture["a"].kind = "ok"

\* a dry run has written or removed nothing; a run that has merged source a,
\* dry or not, holds in memory the state, and in its report the counters, that
\* merge_source_events gives for the state file at the start of the run, the
\* candidates and the clock
C38Inv ==
    /\ (opts.dry_run /\ pc # "idle") => (disk = start_disk /\ files = start_files)
    /\ Merged =>
          LET m == merge_source_events(load_state(start_disk), "a", fixture["a"].cands, now)
          IN /\ reports[1] = m.report
             /\ pc # "saving" => state = m.state

\* the sync that follows a dry run loads the state the dry run has loaded
\* and finds the files the dry run has found
C38Step ==
    (opts.dry_run /\ pc \in Stopped \ {"idle"} /\ pc' = "source") =>
        /\ state' = load_state(start_disk)
        /\ start_disk' = start_disk
        /\ start_files' = start_files

\* C38: a dry run merges in memory and returns the report counters a real
\* sync returns from the same state, candidates and clock; it writes neither
\* the state file nor a calendar file and removes no file; the sync that
\* follows starts from the state and the files the dry run started from.
C38DryRunLeavesNoTrace == [][C38Step]_vars /\ []C38Inv

\* a dry run over the old store has ended: it has counted an update, an
\* unchanged candidate and no cancellation, its state in memory differs from
\* the state file, and the state file and the calendar files are as they were
C38Witness ==
    /\ pc = "done" /\ opts.dry_run
    /\ start_disk = Doc(OldState)
    /\ fixture["a"] = Fetched(<<A1r, A2>>)
    /\ Len(reports) = 1
    /\ reports[1].updated = 1 /\ reports[1].unchanged = 1
    /\ state # load_state(disk)
    /\ disk = start_disk /\ files = start_files

\* the run leaves out the source of this key: its configuration is disabled
\* or --source names another key
Excluded(k) ==
    \/ IsSome(opts.source) /\ Unwrap(opts.source) # k
    \/ k \in Sources /\ config[k] = "disabled"

\* the records a State holds for a source key
RecordsOf(st, k) == {r \in {st.events[u] : u \in DOMAIN st.events} : r.source_key = k}

\* C39: a source that is disabled or left out by --source is neither fetched
\* nor merged nor rebuilt in a sync: nothing is fetched for it and no report
\* pushed, its records in memory and in the state file are those the state
\* file held at the start of the run, none cancelled, and its calendar files
\* are those of the start of the run.
C39ExcludedSourceUntouched ==
    \A k \in Sources \cup {"a::b"} :
        (Excluded(k) /\ pc \in Running \cup {"done"}) =>
            /\ k \in Sources => (fixture[k].kind = "unfetched" /\ ~Reported(k))
            /\ RecordsOf(state, k) = RecordsOf(load_state(start_disk), k)
            /\ disk.kind = "doc" =>
                  RecordsOf(disk.state, k) = RecordsOf(load_state(start_disk), k)
            /\ \A f \in FileNames : f.dir = k => files[f] = start_files[f]

\* the identity stable_uid derives from title and year bucket
TitleIdentity(c) ==
    Text(c.source_key) \o <<"::">> \o Text(to_lowercase(c.title)) \o <<"::">>
        \o (IF IsSome(year_bucket(c.time)) THEN <<ToString(Unwrap(year_bucket(c.time)))>>
            ELSE <<"undated">>)

\* a mapped record with a title and with neither an id nor a url field
Bare(mapped) ==
    LET f == mapped.fields
    IN /\ IsSome(f.title) \/ IsSome(f.name)
       /\ f.source_event_id = None /\ f.id = None
       /\ f.url = None /\ f.link = None

\* the records of the document converted so far
Converted == SubSeq(call.input[1], 1, Len(call.input[1]) - Len(call.remaining))

\* C40: every candidate of the declarative extractor has a source_url, the
\* URL of the document where the record has no url and no link field, and its
\* UID is not the one of title and year bucket; the records of a document
\* that have neither an id nor a url field all get the UID of the source key
\* and the document URL, and after the merge the state holds at most one
\* record for all of them.
C40DocumentUrlIsIdentity ==
    (Len(call.input) = 1 /\ "events" \in DOMAIN call) =>
        /\ \A i \in 1..Len(call.events) :
              LET c == call.events[i]
              IN /\ IsSome(c.source_url)
                 /\ stable_uid(c) # Sha256(TitleIdentity(c))
        /\ Len(call.events)
              = Cardinality({i \in 1..Len(Converted) :
                                IsSome(Converted[i].fields.title)})
        /\ \A i \in 1..Len(Converted) :
              Bare(Converted[i]) =>
                 \E j \in 1..Len(call.events) :
                    /\ call.events[j].title = Unwrap(Converted[i].fields.title)
                    /\ call.events[j].source_url = Some(DocumentUrl)
                    /\ stable_uid(call.events[j]) = Sha256(<<"a", "::", DocumentUrl>>)
        /\ pc = "rebuild" =>
              /\ DOMAIN state.events = {stable_uid(call.events[j]) : j \in 1..Len(call.events)}
              /\ Cardinality({u \in DOMAIN state.events :
                                 /\ state.events[u].source_event_id = None
                                 /\ state.events[u].source_url = Some(DocumentUrl)}) <= 1
              /\ (\E i \in 1..Len(Converted) : Bare(Converted[i])) =>
                    Cardinality({u \in DOMAIN state.events :
                                    /\ state.events[u].source_event_id = None
                                    /\ state.events[u].source_url = Some(DocumentUrl)}) = 1

\* a document with two records that have a title only, Report A and Report B
\* of 2027, has been merged: the state holds one record, Report B, and the
\* report counts one insert and one update
C40Witness ==
    /\ Len(call.input) = 1 /\ "events" \in DOMAIN call
    /\ call.input[1] = <<MappedRecord(Some("Report A"), None, None, None, None, None),
                         MappedRecord(Some("Report B"), None, None, None, None, Some("2027"))>>
    /\ pc = "rebuild"
    /\ Cardinality(DOMAIN state.events) = 1
    /\ \A u \in DOMAIN state.events :
          /\ u = Sha256(<<"a", "::", DocumentUrl>>)
          /\ state.events[u].title = "Report B"
          /\ state.events[u].time = YearSpec(BaseYear + 1)
    /\ report.inserted = 1 /\ report.updated = 1
====
